---- MODULE Spec2Model ----
(***************************************************************************)
(* A model of the CPU tensor kernel core of crabml: the tensor buffer      *)
(* union (backends/cpu/buf/api.rs), the Q8_0 block codec and its lazy      *)
(* dequantizing iterator (backends/cpu/buf/buf_q8_0.rs), the dense and     *)
(* batched matmul and softmax of tensor/arithmetic.rs, and the batched     *)
(* matmul primitive of backends/cpu/primitives/batch_matmul.rs.            *)
(*                                                                         *)
(* Numbers.  Bytes are 0..255.  An f16 scale is kept as its 16-bit         *)
(* pattern and decoded by F16ToF32 into an exact dyadic number             *)
(* [k, m, e] = m * 2^e (m odd, or m = 0 and e = 0), or inf / nan.  The     *)
(* product (q as f32) * d of an i8 and a decoded f16 has at most 19        *)
(* significant bits, so it is exact in f32 and is modelled exactly.        *)
(* Tensor elements of the matmul and softmax primitives are small          *)
(* integers, which f32 (and, below 2048, f16) represents exactly.          *)
(***************************************************************************)
EXTENDS Integers, Sequences, FiniteSets, TLC

VARIABLES
    a,      \* the CpuTensorBuf under test (api.rs), or NoBuf
    res,    \* the outcome of the last buffer operation
    it,     \* a BlockBufIterQ8_0 over a (buf_q8_0.rs), or NoIter
    tw,     \* tensor arithmetic: the left operand  (w / t)
    tx,     \* tensor arithmetic: the right operand (x)
    tout,   \* tensor arithmetic: the outcome of the last primitive
    bm,     \* batch_matmul primitive: operands, output buffer, outcome
    bf,     \* buffer operations: a destination, a source, the last outcome
    qz,     \* Q8_0 block codec: a chunk, its quantized block, the round trip
    mq,     \* multi-query attention: two runs on inputs that differ in one row
    rp,     \* rope: q and k before and after the call
    par     \* parallel kernels: pending tasks and the shared output

vars == <<a, res, it, tw, tx, tout, bm, bf, qz, mq, rp, par>>

----------------------------------------------------------------------------
(* Bounds of the model.                                                    *)

MaxBlocks == 2      \* byte slices hold up to MaxBlocks blocks
MaxTail == 1        \* ... plus up to MaxTail stray bytes
MaxSeed == 2        \* byte patterns
MaxStep == 2        \* iter_range: steps 1..MaxStep, and the block-sized ones
MaxEndGap == 1      \* iter_range: end is within MaxEndGap of the buffer's len()
MaxDim == 2         \* tensor extents are 1..MaxDim, ranks 1..3
MaxFill == 1        \* fill patterns 0..MaxFill of the right operand
MaxBatch == 2       \* batch_matmul: batch sizes 1..MaxBatch
MaxCalls == 2       \* batch_matmul: calls on one output buffer
MaxDst == 2         \* buffer operations: destinations of 1..MaxDst elements, and 33
MaxOps == 2         \* buffer ownership: operations applied to one buffer
MaxTasks == 4       \* parallel kernels: tasks of one parallel loop
MaxMag == 4         \* Q8_0 round trip: largest magnitude of a chunk element

----------------------------------------------------------------------------
(* Program constants.                                                      *)

BLOCK_ELEMS == 32           \* BlockQ8_0::BLOCK_ELEMS
BlockQ8_0_size == 34        \* size_of::<BlockQ8_0>(): f16 + [i8; 32], packed
F32_size == 4               \* size_of::<f32>()
USIZE_MAX == 2147483647     \* stands for usize::MAX: above every element index

GGMLType == {"F32", "F16", "Q8_0", "Q8_1", "Q4_0", "Q4_1"}
Variants == {"F32", "Q8_0", "Q8_1", "Q4_0", "Q4_1"}

\* Block byte sizes of the variants whose codec files are not part of the
\* modelled sources (spec section 3).
BlockBytes(typ) ==
    CASE typ = "Q8_0" -> BlockQ8_0_size
      [] typ = "Q8_1" -> 36
      [] typ = "Q4_0" -> 20
      [] typ = "Q4_1" -> 22
      [] typ = "F32"  -> F32_size
      [] OTHER        -> 2

----------------------------------------------------------------------------
(* Arithmetic helpers.                                                     *)

RECURSIVE Pow2(_)
Pow2(n) == IF n <= 0 THEN 1 ELSE 2 * Pow2(n - 1)

Min(x, y) == IF x <= y THEN x ELSE y
Max(x, y) == IF x >= y THEN x ELSE y

Abs(x) == IF x < 0 THEN -x ELSE x

\* The number of binary digits of n >= 0.
RECURSIVE BitLen(_)
BitLen(n) == IF n = 0 THEN 0 ELSE 1 + BitLen(n \div 2)

\* n / d rounded to the nearest whole number, ties to even (n >= 0, d > 0).
RoundHalfEven(n, d) ==
    LET q == n \div d
        r == n % d
    IN  IF 2 * r > d \/ (2 * r = d /\ q % 2 = 1) THEN q + 1 ELSE q

\* Long division: k more binary digits of a quotient q with remainder r
\* by b (0 <= r < b < 2^30); the quotient and what remains.
RECURSIVE DivBits(_, _, _, _)
DivBits(q, r, b, k) ==
    IF k = 0 THEN [q |-> q, r |-> r]
    ELSE IF 2 * r >= b THEN DivBits(2 * q + 1, 2 * r - b, b, k - 1)
    ELSE DivBits(2 * q, 2 * r, b, k - 1)

\* floor(n * 2^k / d) for n >= 0 and 0 < d < 2^30, without forming
\* n * 2^k: n is shifted as far as 30 bits hold it, the long division
\* yields the other digits.
ShlDiv(n, d, k) ==
    IF n = 0 THEN 0
    ELSE LET j  == Min(k, Max(0, 30 - BitLen(n)))
             nn == n * Pow2(j)
         IN  DivBits(nn \div d, nn % d, d, k - j).q

\* The whole r with r * r <= n < (r + 1) * (r + 1), searched in lo..hi.
RECURSIVE ISqrt(_, _, _)
ISqrt(n, lo, hi) ==
    IF lo >= hi THEN lo
    ELSE LET mid == (lo + hi + 1) \div 2
         IN  IF mid * mid <= n THEN ISqrt(n, mid, hi) ELSE ISqrt(n, lo, mid - 1)

\* Square root digit by digit: from the root and remainder of n to those
\* of n * 4^k.
RECURSIVE SqrtBits(_, _, _)
SqrtBits(root, rem, k) ==
    IF k = 0 THEN [root |-> root, rem |-> rem]
    ELSE IF 4 * rem >= 4 * root + 1
         THEN SqrtBits(2 * root + 1, 4 * rem - (4 * root + 1), k - 1)
         ELSE SqrtBits(2 * root, 4 * rem, k - 1)

\* floor(sqrt(n * 4^k)) with its remainder, for 0 <= n < 2^31.
SqrtShl(n, k) ==
    LET r == ISqrt(n, 0, 46340)
    IN  SqrtBits(r, n - r * r, k)

\* A value rounded to the 24 significant bits of an f32 (p >= 0).
RoundF32(p) ==
    LET b == BitLen(p)
    IN  IF b <= 24 THEN p ELSE RoundHalfEven(p, Pow2(b - 24)) * Pow2(b - 24)

\* n * 2^k / d as an f32: the quotient to 24 significant bits, ties to
\* even, as [m, e] with value m * 2^e.  n is shifted to 30 bits and the
\* long division continued until the quotient has 27 bits or more, with a
\* sticky bit for what remains (0 <= n < 2^30, 0 < d < 2^30).
DivF32(n, d, k) ==
    IF n = 0 THEN [m |-> 0, e |-> 0]
    ELSE LET j  == 30 - BitLen(n)
             nn == n * Pow2(j)
             kk == Max(0, BitLen(d) - 3)
             z  == DivBits(nn \div d, nn % d, d, kk)
         IN  [m |-> RoundF32(2 * z.q + (IF z.r > 0 THEN 1 ELSE 0)),
              e |-> k - j - kk - 1]

\* sqrt(n) as an f32: the root to 24 significant bits as [m, e], from 27
\* digits of the root of n * 4^j * 4^12 and a sticky bit (0 < n < 2^30).
SqrtF32(n) ==
    LET j == (30 - BitLen(n)) \div 2
        s == SqrtShl(n * Pow2(2 * j), 12)
    IN  [m |-> RoundF32(2 * s.root + (IF s.rem > 0 THEN 1 ELSE 0)), e |-> -(j + 13)]

\* m * 2^e (m >= 0) in whole units, to the nearest; `top` from 2^30 on.
ToUnits(m, e, top) ==
    IF e >= 0
    THEN IF m = 0 THEN 0 ELSE IF BitLen(m) + e > 30 THEN top ELSE m * Pow2(e)
    ELSE IF -e > 30 THEN 0
    ELSE RoundHalfEven(m, Pow2(-e))

RECURSIVE SumSeq(_)
SumSeq(s) == IF s = <<>> THEN 0 ELSE Head(s) + SumSeq(Tail(s))

\* A dyadic number m * 2^e in normal form (m odd, or +0.0 as m = 0, e = 0).
RECURSIVE Dy(_, _)
Dy(m, e) ==
    IF m = 0 THEN [k |-> "num", m |-> 0, e |-> 0]
    ELSE IF m % 2 = 0 THEN Dy(m \div 2, e + 1)
    ELSE [k |-> "num", m |-> m, e |-> e]

\* i8 read from a byte (two's complement).
I8(byte) == IF byte >= 128 THEN byte - 256 ELSE byte

\* -0.0: the zero with the sign bit set.
NegZero == [k |-> "num", m |-> 0, e |-> -1]

NaN == [k |-> "nan", m |-> 0, e |-> 0]

\* The sign bit of an f32 that is not a NaN.
DyNeg(x) == x.m < 0 \/ x = NegZero

\* half::f16::to_f32 on the bit pattern `bits` (IEEE-754 binary16): exact.
F16ToF32(bits) ==
    LET s    == bits \div 32768
        ex   == (bits \div 1024) % 32
        mant == bits % 1024
        sg   == IF s = 1 THEN -1 ELSE 1
    IN  IF ex = 31
        THEN IF mant = 0 THEN [k |-> "inf", m |-> sg, e |-> 0]
                         ELSE [k |-> "nan", m |-> 0, e |-> 0]
        ELSE IF ex = 0 /\ mant = 0 THEN (IF s = 1 THEN NegZero ELSE Dy(0, 0))
        ELSE IF ex = 0 THEN Dy(sg * mant, -24)
        ELSE Dy(sg * (1024 + mant), ex - 25)

\* x * y in f32 for dyadic x, y whose product f32 holds exactly.
DyMul(x, y) ==
    IF x.k = "nan" \/ y.k = "nan" THEN NaN
    ELSE IF x.k = "inf" \/ y.k = "inf"
         THEN IF x.m = 0 \/ y.m = 0 THEN NaN
              ELSE [k |-> "inf", m |-> (IF DyNeg(x) # DyNeg(y) THEN -1 ELSE 1), e |-> 0]
    ELSE IF x.m = 0 \/ y.m = 0
         THEN (IF DyNeg(x) # DyNeg(y) THEN NegZero ELSE Dy(0, 0))
    ELSE Dy(x.m * y.m, x.e + y.e)

\* (q as f32) * d for an i8 q and a decoded f16 d: exact in f32.
MulI8(q, d) == DyMul(Dy(q, 0), d)

----------------------------------------------------------------------------
(* Byte slices handed over by the model loader.                            *)

\* The f16 scale patterns used: 3.0, 0.5, -2.0 (little-endian on disk).
ScaleBits(seed, blk) ==
    CASE (seed + blk) % 3 = 0 -> 16896      \* 0x4200 = 3.0
      [] (seed + blk) % 3 = 1 -> 14336      \* 0x3800 = 0.5
      [] OTHER                -> 49152      \* 0xC000 = -2.0

\* Byte i (0-based) of the slice with pattern `seed`: Q8_0 blocks with a
\* scale and 32 quants, some of them negative.
ByteAt(seed, i) ==
    LET blk == i \div BlockQ8_0_size
        o   == i % BlockQ8_0_size
    IN  IF o = 0 THEN ScaleBits(seed, blk) % 256
        ELSE IF o = 1 THEN ScaleBits(seed, blk) \div 256
        ELSE ((((o * (seed + 2)) + (5 * blk)) % 11) + 253) % 256

RawBytes(len, seed) == [i \in 1..len |-> ByteAt(seed, i - 1)]

ByteLens ==
    { BlockBytes(typ) * n + t : typ \in Variants, n \in 0..MaxBlocks, t \in 0..MaxTail }

ByteInputs == { RawBytes(len, seed) : len \in ByteLens, seed \in 1..MaxSeed }

----------------------------------------------------------------------------
(* The Q8_0 block codec (buf_q8_0.rs).                                     *)

Panic == [status |-> "panic"]

\* BlockQ8_0::from_bytes: the slice reinterpreted as packed blocks
\* { d: f16, qs: [i8; 32] }; asserts that the length is a multiple of 34.
BlockQ8_0_from_bytes(data) ==
    IF Len(data) % BlockQ8_0_size # 0
    THEN [status |-> "panic", blocks |-> <<>>]
    ELSE [status |-> "ok",
          blocks |-> [b \in 1..(Len(data) \div BlockQ8_0_size) |->
              LET base == (b - 1) * BlockQ8_0_size
              IN  [d  |-> data[base + 1] + 256 * data[base + 2],
                   qs |-> [j \in 1..BLOCK_ELEMS |-> I8(data[base + 2 + j])]]]]

\* BlockQ8_0::dequantize: buf[i] = qs[i] as f32 * d.
BlockQ8_0_dequantize(block) ==
    [i \in 1..BLOCK_ELEMS |-> MulI8(block.qs[i], F16ToF32(block.d))]

QuantBufQ8_0_from_bytes_nodiv(buf) ==
    [raw |-> buf, num_blocks |-> Len(buf)]

\* QuantBufQ8_0::from_bytes: no length check (the assert is commented out).
QuantBufQ8_0_from_bytes(buf) ==
    [raw |-> buf, num_blocks |-> Len(buf) \div BlockQ8_0_size]

\* QuantBufQ8_0::blocks
QuantBufQ8_0_blocks(q) == BlockQ8_0_from_bytes(q.raw)

\* QuantBufQ8_0::len
QuantBufQ8_0_len(q) == q.num_blocks * BLOCK_ELEMS

----------------------------------------------------------------------------
(* The tensor buffer union (api.rs).                                       *)

NoBuf == [variant |-> "none", owned |-> FALSE, f32 |-> <<>>,
          raw |-> <<>>, num_blocks |-> 0]

QuantBuf(typ, q) ==
    [variant |-> typ, owned |-> FALSE, f32 |-> <<>>,
     raw |-> q.raw, num_blocks |-> q.num_blocks]

\* What a build makes of the undefined behaviour of a misaligned
\* slice::from_raw_parts::<f32>: the precondition check of a build with
\* debug assertions aborts the process, an optimised build reads the bytes.
UBOutcomes == {"abort", "read"}

\* f32_buf_from_bytes: a borrowed f32 slice over the bytes at address
\* `addr`; an element is kept as its four bytes.  Asserts that the length
\* is a multiple of 4, then casts the pointer to *const f32 unchecked: for
\* an address that is not a multiple of 4 the outcome is `ub`.
f32_buf_from_bytes(buf, addr, ub) ==
    IF Len(buf) % F32_size # 0
    THEN [status |-> "panic", buf |-> NoBuf]
    ELSE IF addr % F32_size # 0 /\ ub = "abort"
    THEN [status |-> "abort", buf |-> NoBuf]
    ELSE [status |-> "ok",
          buf |-> [variant |-> "F32", owned |-> FALSE,
                   f32 |-> [i \in 1..(Len(buf) \div F32_size) |->
                               SubSeq(buf, (i - 1) * F32_size + 1, i * F32_size)],
                   raw |-> <<>>, num_blocks |-> 0]]

\* QuantBufQ8_1 / Q4_0 / Q4_1 ::from_bytes: a borrowed view of whole blocks,
\* failing fast on a length that is not a multiple of the block size.
QuantBuf_from_bytes(typ, buf) ==
    IF Len(buf) % BlockBytes(typ) # 0
    THEN [status |-> "panic", buf |-> NoBuf]
    ELSE [status |-> "ok",
          buf |-> QuantBuf(typ, [raw |-> buf,
                                 num_blocks |-> Len(buf) \div BlockBytes(typ)])]

\* CpuTensorBuf::from_raw_bytes on the slice `buf` at address `addr`; the
\* block views are packed (alignment 1) and take any address.
from_raw_bytes(buf, typ, addr, ub) ==
    CASE typ = "F32"  -> f32_buf_from_bytes(buf, addr, ub)
      [] typ = "Q8_0" -> [status |-> "ok",
                          buf |-> QuantBuf("Q8_0", QuantBufQ8_0_from_bytes(buf))]
      [] typ \in {"Q8_1", "Q4_0", "Q4_1"} -> QuantBuf_from_bytes(typ, buf)
      [] OTHER -> [status |-> "panic", buf |-> NoBuf]     \* unimplemented!()

\* CpuTensorBuf::is_owned
is_owned(b) == b.variant = "F32" /\ b.owned

\* CpuTensorBuf::dtype
dtype(b) == b.variant

\* CpuTensorBuf::len
len(b) ==
    IF b.variant = "F32" THEN Len(b.f32)
    ELSE IF b.variant = "Q8_0" THEN QuantBufQ8_0_len(b)
    ELSE b.num_blocks * BLOCK_ELEMS

vec_dot_rhs_dtype_same(b) == b.variant

\* CpuTensorBuf::vec_dot_rhs_dtype
vec_dot_rhs_dtype(b) ==
    CASE b.variant = "F32"  -> "F32"
      [] b.variant = "Q8_0" -> "Q8_0"
      [] b.variant = "Q8_1" -> "Q8_1"
      [] b.variant = "Q4_0" -> "Q8_0"
      [] b.variant = "Q4_1" -> "Q8_1"

vec_dot_q4_any(x, y) ==
    IF x.variant = y.variant \/ (x.variant = "Q4_0" /\ y.variant \in {"Q8_0", "Q8_1"})
                             \/ (x.variant = "Q4_1" /\ y.variant \in {"Q8_0", "Q8_1"})
    THEN [status |-> "ok", kernel |-> <<x.variant, y.variant>>]
    ELSE [status |-> "panic", kernel |-> <<>>]

\* CpuTensorBuf::vec_dot: the kernel the (self, b) pair is routed to, or
\* unreachable!().
vec_dot(x, y) ==
    CASE x.variant = "F32"  /\ y.variant = "F32"  ->
            [status |-> "ok", kernel |-> <<"F32", "F32">>]
      [] x.variant = "Q8_0" /\ y.variant = "Q8_0" ->
            [status |-> "ok", kernel |-> <<"Q8_0", "Q8_0">>]
      [] x.variant = "Q8_1" /\ y.variant = "Q8_1" ->
            [status |-> "ok", kernel |-> <<"Q8_1", "Q8_1">>]
      [] x.variant = "Q4_0" /\ y.variant = "Q8_0" ->
            [status |-> "ok", kernel |-> <<"Q4_0", "Q8_0">>]
      [] x.variant = "Q4_1" /\ y.variant = "Q8_1" ->
            [status |-> "ok", kernel |-> <<"Q4_1", "Q8_1">>]
      [] OTHER -> [status |-> "panic", kernel |-> <<>>]

----------------------------------------------------------------------------
(* Idle values of the parts a specification does not exercise.             *)

NoRes == [op |-> "none", status |-> "ok", arg |-> "", n |-> 0, val |-> 0]
NoIter == [active |-> FALSE]
NoTensor == [shape |-> <<>>, strides |-> <<>>, buf |-> <<>>]
NoOut == [op |-> "none", status |-> "ok", t |-> NoTensor, limit |-> 0,
          pre |-> NoTensor]
NoBufOp == [op |-> "none", status |-> "ok", arg |-> "", off |-> 0, n |-> 0,
            dst |-> NoBuf, dst0 |-> NoBuf, src |-> NoBuf, out |-> NoBuf, val |-> <<>>]
NoQuant == [op |-> "none", chunk |-> <<>>, block |-> [d |-> 0, qs |-> <<>>], deq |-> <<>>]
NoAttn == [op |-> "none", pos |-> 0, kind |-> "", row |-> <<>>,
           q |-> NoTensor, k |-> NoTensor, v |-> NoTensor, status |-> "", out |-> NoTensor,
           q2 |-> NoTensor, k2 |-> NoTensor, v2 |-> NoTensor, status2 |-> "", out2 |-> NoTensor]
NoRope == [op |-> "none", status |-> "", pos |-> 0, q0 |-> NoTensor, k0 |-> NoTensor,
           q |-> NoTensor, k |-> NoTensor]
NoPar == [op |-> "none", kind |-> "", w |-> NoTensor, x |-> NoTensor, dims |-> <<>>,
          row |-> 0, pending |-> {}, tmpc |-> <<>>, out |-> <<>>, writes |-> <<>>,
          coords |-> <<>>]
NoStrider == [shape |-> <<>>, strides |-> <<>>]
NoBatch == [op |-> "none", status |-> "ok", a |-> <<>>, b |-> <<>>, bdtype |-> "F32",
            c |-> <<>>, c0 |-> <<>>, s1 |-> NoStrider, s2 |-> NoStrider, calls |-> 0]

----------------------------------------------------------------------------
(* Specification Spec: the buffer union, built from loader bytes and       *)
(* queried.                                                                *)

\* The right-hand buffer of a vec_dot call: one whole block of each variant.
RhsBuf(typ) == from_raw_bytes(RawBytes(BlockBytes(typ), 1), typ, 0, "read").buf

\* Addresses of a slice of loader bytes, modulo the alignment of f32; only
\* the F32 cast looks at the address, and only a misaligned one leaves the
\* outcome open.
AddrMods == 0..(F32_size - 1)
SliceAddrs(typ) == IF typ = "F32" THEN AddrMods ELSE {0}
Outcomes(typ, addr) ==
    IF typ = "F32" /\ addr % F32_size # 0 THEN UBOutcomes ELSE {"read"}

FromRawBytes ==
    \E bytes \in ByteInputs, typ \in GGMLType :
      \E addr \in SliceAddrs(typ) :
        \E ub \in Outcomes(typ, addr) :
        LET r == from_raw_bytes(bytes, typ, addr, ub)
        IN  /\ a' = r.buf
            /\ res' = [op |-> "from_raw_bytes", status |-> r.status,
                       arg |-> typ, n |-> Len(bytes), val |-> addr]
            /\ UNCHANGED <<it, tw, tx, tout, bm, bf, qz, mq, rp, par>>

VecDotRhsDtype ==
    /\ a # NoBuf
    /\ res' = [op |-> "vec_dot_rhs_dtype", status |-> "ok",
               arg |-> "", n |-> 0, val |-> vec_dot_rhs_dtype(a)]
    /\ UNCHANGED <<a, it, tw, tx, tout, bm, bf, qz, mq, rp, par>>

VecDot ==
    /\ a # NoBuf
    /\ \E typ \in Variants :
          LET r == vec_dot(a, RhsBuf(typ))
          IN  res' = [op |-> "vec_dot", status |-> r.status,
                      arg |-> typ, n |-> 0, val |-> r.kernel]
    /\ UNCHANGED <<a, it, tw, tx, tout, bm, bf, qz, mq, rp, par>>

BufLen ==
    /\ a # NoBuf
    /\ res' = [op |-> "len", status |-> "ok", arg |-> "", n |-> 0, val |-> len(a)]
    /\ UNCHANGED <<a, it, tw, tx, tout, bm, bf, qz, mq, rp, par>>

Blocks ==
    /\ a.variant = "Q8_0"
    /\ LET r == QuantBufQ8_0_blocks(a)
       IN  res' = [op |-> "blocks", status |-> r.status,
                   arg |-> "", n |-> 0, val |-> Len(r.blocks)]
    /\ UNCHANGED <<a, it, tw, tx, tout, bm, bf, qz, mq, rp, par>>

Init ==
    /\ a = NoBuf
    /\ res = NoRes
    /\ it = NoIter
    /\ tw = NoTensor
    /\ tx = NoTensor
    /\ tout = NoOut
    /\ bm = NoBatch
    /\ bf = NoBufOp
    /\ qz = NoQuant
    /\ mq = NoAttn
    /\ rp = NoRope
    /\ par = NoPar

Next == FromRawBytes \/ VecDotRhsDtype \/ VecDot \/ BufLen \/ Blocks

Spec == Init /\ [][Next]_vars

----------------------------------------------------------------------------
(* Claims about the buffer union.                                          *)

\* The companion-dtype table of the specification (section 4.1).
CompanionTable ==
    [t \in Variants |->
        CASE t = "F32"  -> "F32"
          [] t = "Q8_0" -> "Q8_0"
          [] t = "Q8_1" -> "Q8_1"
          [] t = "Q4_0" -> "Q8_0"
          [] t = "Q4_1" -> "Q8_1"]

\* C1: for every buffer variant, vec_dot_rhs_dtype returns the companion
\* dtype of the table: F32->F32, Q8_0->Q8_0, Q8_1->Q8_1, Q4_0->Q8_0,
\* Q4_1->Q8_1.
C1_CompanionDtype ==
    res.op = "vec_dot_rhs_dtype" => res.val = CompanionTable[a.variant]

C1_Witness ==
    res.op = "vec_dot_rhs_dtype" /\ a.variant = "Q4_1" /\ res.val = "Q8_1"

\* C2: vec_dot(a, b) reaches a kernel and returns a value exactly when
\* b.dtype() = a.vec_dot_rhs_dtype(); every other ordered pair is fatal
\* and yields no value.
C2_VecDotDispatch ==
    res.op = "vec_dot" =>
        /\ res.status \in {"ok", "panic"}
        /\ res.status = "ok" <=> res.arg = vec_dot_rhs_dtype(a)
        /\ res.status = "ok" => res.val = <<dtype(a), res.arg>>
        /\ res.status = "panic" => res.val = <<>>

C2_Witness ==
    /\ res.op = "vec_dot"
    /\ a.variant = "Q4_0"
    /\ res.arg = "Q8_1"
    /\ res.status = "panic"

\* C3: a slice of n*34 bytes gives a Q8_0 view with len() = n*32 whose
\* blocks() are exactly n blocks, and the element count of every Q8_0
\* buffer is num_blocks*32.
C3_Q8LenBlocks ==
    a.variant = "Q8_0" =>
        /\ len(a) = a.num_blocks * BLOCK_ELEMS
        /\ Len(a.raw) % BlockQ8_0_size = 0 =>
              LET n == Len(a.raw) \div BlockQ8_0_size
              IN  /\ a.num_blocks = n
                  /\ res.op = "len" => res.val = n * BLOCK_ELEMS
                  /\ res.op = "blocks" => res.status = "ok" /\ res.val = n

C3_Witness ==
    /\ a.variant = "Q8_0"
    /\ Len(a.raw) = 2 * BlockQ8_0_size
    /\ res.op = "blocks"
    /\ res.val = 2

\* C4 (as claimed): reinterpreting a slice whose length is not a multiple
\* of 34 as Q8_0 fails at the reinterpretation: from_raw_bytes(bytes, Q8_0)
\* never returns a view over such a slice.
C4_FailFast ==
    (res.op = "from_raw_bytes" /\ res.arg = "Q8_0" /\ res.n % BlockQ8_0_size # 0)
        => (res.status = "panic" /\ a = NoBuf)

----------------------------------------------------------------------------
(* Specification SpecIter: QuantBufQ8_0::iter_range and the iterator's     *)
(* next() (buf_q8_0.rs), over a Q8_0 buffer built from loader bytes.       *)

Zero == Dy(0, 0)

\* QuantBufQ8_0::iter_range: a fresh BlockBufIterQ8_0.  start and yielded
\* record the call's argument and the values next() has returned so far.
iter_range(start, end, step) ==
    [active |-> TRUE, status |-> "run",
     pos |-> start, end |-> end, step |-> step,
     current_f32_buf |-> [i \in 1..BLOCK_ELEMS |-> Zero],
     current_block |-> USIZE_MAX,
     start |-> start, yielded |-> <<>>]

next_stale(i, q) ==
    IF i.pos >= i.end THEN [i EXCEPT !.status = "done"]
    ELSE
      LET block_idx == i.pos \div BLOCK_ELEMS
          bs        == QuantBufQ8_0_blocks(q)
          refresh   == i.current_block = USIZE_MAX
      IN  IF refresh /\ (bs.status = "panic" \/ block_idx >= Len(bs.blocks))
          THEN [i EXCEPT !.status = "panic"]
          ELSE
            LET f32buf == IF refresh
                          THEN BlockQ8_0_dequantize(bs.blocks[block_idx + 1])
                          ELSE i.current_f32_buf
            IN  [i EXCEPT !.current_f32_buf = f32buf,
                          !.current_block = block_idx,
                          !.pos = i.pos + i.step,
                          !.yielded = Append(i.yielded, f32buf[(i.pos % BLOCK_ELEMS) + 1])]

\* BlockBufIterQ8_0::next: None at the end; otherwise the cached block is
\* refreshed when the position has left it, and the element at pos is
\* returned.  blocks() and the block index are fatal when out of range.
next(i, q) ==
    IF i.pos >= i.end THEN [i EXCEPT !.status = "done"]
    ELSE
      LET block_idx == i.pos \div BLOCK_ELEMS
          bs        == QuantBufQ8_0_blocks(q)
          refresh   == block_idx # i.current_block
      IN  IF refresh /\ (bs.status = "panic" \/ block_idx >= Len(bs.blocks))
          THEN [i EXCEPT !.status = "panic"]
          ELSE
            LET f32buf == IF refresh
                          THEN BlockQ8_0_dequantize(bs.blocks[block_idx + 1])
                          ELSE i.current_f32_buf
            IN  [i EXCEPT !.current_f32_buf = f32buf,
                          !.current_block = block_idx,
                          !.pos = i.pos + i.step,
                          !.yielded = Append(i.yielded, f32buf[(i.pos % BLOCK_ELEMS) + 1])]

Q8ByteInputs ==
    { RawBytes(BlockQ8_0_size * n + t, 1) : n \in 0..MaxBlocks, t \in 0..MaxTail }

StepInputs == (1..MaxStep) \cup {BLOCK_ELEMS, BLOCK_ELEMS + 1}

\* One iterator at a time: a new one is made once the last is dropped.
IterRange ==
    /\ a.variant = "Q8_0"
    /\ ~it.active
    /\ \E start \in 0..len(a), gap \in 0..MaxEndGap, step \in StepInputs :
          /\ start <= len(a) - gap
          /\ it' = iter_range(start, len(a) - gap, step)
    /\ UNCHANGED <<a, res, tw, tx, tout, bm, bf, qz, mq, rp, par>>

IterNext ==
    /\ it.active
    /\ it.status = "run"
    /\ it' = next(it, a)
    /\ UNCHANGED <<a, res, tw, tx, tout, bm, bf, qz, mq, rp, par>>

\* The iterator is dropped once it has run out (or its thread has died).
IterDrop ==
    /\ it.active
    /\ it.status # "run"
    /\ it' = NoIter
    /\ UNCHANGED <<a, res, tw, tx, tout, bm, bf, qz, mq, rp, par>>

InitIter ==
    /\ a \in { from_raw_bytes(bytes, "Q8_0", 0, "read").buf : bytes \in Q8ByteInputs }
    /\ res = NoRes
    /\ it = NoIter
    /\ tw = NoTensor
    /\ tx = NoTensor
    /\ tout = NoOut
    /\ bm = NoBatch
    /\ bf = NoBufOp /\ qz = NoQuant /\ mq = NoAttn /\ rp = NoRope /\ par = NoPar

NextIter == IterRange \/ IterNext \/ IterDrop

SpecIter == InitIter /\ [][NextIter]_vars

CeilDiv(x, y) == (x + y - 1) \div y

\* C5: over a buffer of n whole blocks, iter_range(start, end, step) with
\* 0 <= start <= end <= 32n and step >= 1 ends after exactly
\* ceil((end-start)/step) values, the k-th being qs[p mod 32] * d of block
\* p div 32 for p = start + k*step; the cached floats are always the
\* dequantization of the cached block.
C5_IterRange ==
    (it.active /\ Len(a.raw) % BlockQ8_0_size = 0) =>
        LET blocks == BlockQ8_0_from_bytes(a.raw).blocks
            count  == CeilDiv(it.end - it.start, it.step)
        IN  /\ it.status # "panic"
            /\ it.pos = it.start + Len(it.yielded) * it.step
            /\ Len(it.yielded) <= count
            /\ it.status = "done" => Len(it.yielded) = count
            /\ \A k \in 1..Len(it.yielded) :
                  LET p == it.start + (k - 1) * it.step
                      b == blocks[(p \div BLOCK_ELEMS) + 1]
                  IN  it.yielded[k] = MulI8(b.qs[(p % BLOCK_ELEMS) + 1], F16ToF32(b.d))
            /\ it.current_block # USIZE_MAX =>
                  /\ it.current_block < Len(blocks)
                  /\ it.current_f32_buf = BlockQ8_0_dequantize(blocks[it.current_block + 1])

\* The scenario of the source's test: from offset 10 of two blocks, 54 values.
C5_Witness ==
    /\ it.active
    /\ Len(a.raw) = 2 * BlockQ8_0_size
    /\ it.status = "done"
    /\ it.start = 10
    /\ it.end = 2 * BLOCK_ELEMS
    /\ it.step = 1
    /\ Len(it.yielded) = 54
    /\ it.current_block = 1

----------------------------------------------------------------------------
(* The shape/stride descriptor over an owned f32 buffer (CpuTensor).       *)
(* Positions and offsets are 0-based, as in the source; sequences are      *)
(* 1-based.                                                                *)

RECURSIVE Prod(_)
Prod(s) == IF s = <<>> THEN 1 ELSE Head(s) * Prod(Tail(s))

Reverse(s) == [i \in 1..Len(s) |-> s[Len(s) + 1 - i]]

\* Strides of a contiguous layout: the reverse cumulative product of the shape.
ContiguousStrides(shape) ==
    [d \in 1..Len(shape) |-> Prod(SubSeq(shape, d + 1, Len(shape)))]

Rank(t) == Len(t.shape)

\* CpuTensor::is_contiguous
is_contiguous(t) == t.strides = ContiguousStrides(t.shape)

\* CpuTensor::new(buf, shape) / CpuTensor::zeros(shape): contiguous, owned.
NewTensor(buf, shape) ==
    [shape |-> shape, strides |-> ContiguousStrides(shape), buf |-> buf]

Zeros(shape) == NewTensor([i \in 1..Prod(shape) |-> 0], shape)

InBounds(t, pos) ==
    /\ Len(pos) = Rank(t)
    /\ \A d \in 1..Rank(t) : pos[d] < t.shape[d]

Offset(t, pos) == SumSeq([d \in 1..Rank(t) |-> pos[d] * t.strides[d]])

\* The element at a logical position.
At(t, pos) == t.buf[Offset(t, pos) + 1]

\* CpuTensor::iter_axis(origin, axis): the buffer offsets walked along
\* `axis` (0-based) from `origin`, advancing by that axis's stride and
\* stopping at the extent; an error for an origin outside the shape.
iter_axis_offsets(t, origin, axis) ==
    IF ~InBounds(t, origin) \/ axis >= Rank(t)
    THEN [status |-> "err", offs |-> <<>>]
    ELSE [status |-> "ok",
          offs |-> [i \in 1..(t.shape[axis + 1] - origin[axis + 1]) |->
                       Offset(t, origin) + (i - 1) * t.strides[axis + 1]]]

iter_axis(t, origin, axis) ==
    LET r == iter_axis_offsets(t, origin, axis)
    IN  [status |-> r.status, vals |-> [i \in 1..Len(r.offs) |-> t.buf[r.offs[i] + 1]]]

\* w_iter.zip(x_iter).map(|(w, x)| w * x).sum::<f32>()
ZipDot(ws, xs) ==
    SumSeq([i \in 1..Min(Len(ws), Len(xs)) |-> ws[i] * xs[i]])

----------------------------------------------------------------------------
(* Dense and batched matmul of tensor/arithmetic.rs.  A result is          *)
(* [status, t]: "ok" with the output tensor, "err" for a returned error    *)
(* value, "panic" for a fatal unwrap or slice index.                       *)

Err == [status |-> "err", t |-> NoTensor]
Fatal == [status |-> "panic", t |-> NoTensor]

\* require_tensor_dims
require_tensor_dims(t, dims) == Rank(t) \in dims

\* require_tensor_matmul_2d_shapes: t1.shape()[1] == t2.shape()[0]
require_tensor_matmul_2d_shapes(t1, t2) == t1.shape[2] = t2.shape[1]

require_tensor_contiguous_skipped(t) == TRUE

\* require_tensor_contiguous
require_tensor_contiguous(t) == is_contiguous(t)

tensor_matmul_specialized_2d_1d_rowstride(w, x) ==
    LET rows  == w.shape[1]
        x_dim == Prod(x.shape)
    IN  [status |-> "ok",
         t |-> NewTensor(
             [i \in 1..rows |->
                 ZipDot(SubSeq(w.buf, (i - 1) * rows + 1, Len(w.buf)), x.buf)],
             <<rows>>)]

\* tensor_matmul_specialized_2d_1d: row w_row of the flat w buffer against
\* the flat x buffer.
tensor_matmul_specialized_2d_1d(w, x) ==
    LET rows  == w.shape[1]
        x_dim == Prod(x.shape)
    IN  IF rows * x_dim > Len(w.buf) THEN Fatal
        ELSE [status |-> "ok",
              t |-> NewTensor(
                  [i \in 1..rows |->
                      ZipDot(SubSeq(w.buf, (i - 1) * x_dim + 1, i * x_dim), x.buf)],
                  <<rows>>)]

\* tensor_matmul_2d
tensor_matmul_2d(w, x) ==
    IF ~require_tensor_dims(w, {2}) THEN Err
    ELSE IF ~require_tensor_dims(x, {1, 2}) THEN Err
    ELSE IF ~require_tensor_matmul_2d_shapes(w, x) THEN Err
    ELSE IF ~require_tensor_contiguous(w) THEN Err
    ELSE IF is_contiguous(x) /\ Rank(x) = 1
    THEN tensor_matmul_specialized_2d_1d(w, x)
    ELSE IF Rank(x) = 1
    THEN LET x_col == iter_axis(x, <<0>>, 0)
             row(w_row) == iter_axis(w, <<w_row, 0>>, 1)
         IN  IF x_col.status # "ok" \/ \E r \in 0..(w.shape[1] - 1) : row(r).status # "ok"
             THEN Fatal
             ELSE [status |-> "ok",
                   t |-> NewTensor([i \in 1..w.shape[1] |->
                             ZipDot(row(i - 1).vals, x_col.vals)], <<w.shape[1]>>)]
    ELSE LET w_rows == w.shape[1]
             x_cols == x.shape[2]
             row(w_row) == iter_axis(w, <<w_row, 0>>, 1)
             col(x_col) == iter_axis(x, <<0, x_col>>, 0)
         IN  IF \/ \E r \in 0..(w_rows - 1) : row(r).status # "ok"
                \/ \E c \in 0..(x_cols - 1) : col(c).status # "ok"
             THEN Fatal
             ELSE [status |-> "ok",
                   t |-> NewTensor([i \in 1..(w_rows * x_cols) |->
                             ZipDot(row((i - 1) \div x_cols).vals,
                                    col((i - 1) % x_cols).vals)],
                             <<w_rows, x_cols>>)]

batch_matmul_shapes_batch_only(w, x) == w.shape[1] = x.shape[1]

\* The shape test of tensor_batch_matmul: equal batch sizes, and
\* w.shape()[2] == x.shape()[1].
batch_matmul_shapes(w, x) == w.shape[1] = x.shape[1] /\ w.shape[3] = x.shape[2]

\* tensor_batch_matmul
tensor_batch_matmul(w, x) ==
    IF ~require_tensor_dims(w, {3}) THEN Err
    ELSE IF ~require_tensor_dims(x, {2, 3}) THEN Err
    ELSE IF ~batch_matmul_shapes(w, x) THEN Err
    ELSE IF Rank(x) = 2
    THEN LET batch_size == w.shape[1]
             w_rows     == w.shape[2]
             w_iter(b, w_col) == iter_axis(w, <<b, 0, w_col>>, 1)
             x_iter(b)        == iter_axis(x, <<b, 0>>, 1)
         IN  IF \E b \in 0..(batch_size - 1), c \in 0..(w_rows - 1) :
                    w_iter(b, c).status # "ok" \/ x_iter(b).status # "ok"
             THEN Fatal
             ELSE [status |-> "ok",
                   t |-> NewTensor([i \in 1..(batch_size * w_rows) |->
                             ZipDot(w_iter((i - 1) \div w_rows, (i - 1) % w_rows).vals,
                                    x_iter((i - 1) \div w_rows).vals)],
                             <<batch_size, w_rows>>)]
    ELSE LET batch_size == w.shape[1]
             w_rows     == w.shape[2]
             x_cols     == x.shape[3]
             w_row_iter(b, w_row) == iter_axis(w, <<b, w_row, 0>>, 2)
             x_col_iter(b, x_col) == iter_axis(x, <<b, 0, x_col>>, 1)
             bOf(i) == (i - 1) \div (w_rows * x_cols)
             rOf(i) == ((i - 1) \div x_cols) % w_rows
             cOf(i) == (i - 1) % x_cols
         IN  IF \E b \in 0..(batch_size - 1) :
                    \/ \E r \in 0..(w_rows - 1) : w_row_iter(b, r).status # "ok"
                    \/ \E c \in 0..(x_cols - 1) : x_col_iter(b, c).status # "ok"
             THEN Fatal
             ELSE [status |-> "ok",
                   t |-> NewTensor([i \in 1..(batch_size * w_rows * x_cols) |->
                             ZipDot(w_row_iter(bOf(i), rOf(i)).vals,
                                    x_col_iter(bOf(i), cOf(i)).vals)],
                             <<batch_size, w_rows, x_cols>>)]

----------------------------------------------------------------------------
(* Softmax of tensor/arithmetic.rs.  Its elements are f32 values kept in   *)
(* fixed point, in units of 1/FxOne; the inputs are whole numbers.         *)

FxOne == Pow2(10)
FxInf == Pow2(30)
FxNaN == -Pow2(30) - 1

\* exp(-f / FxOne) for 0 <= f < FxOne in units of 2^-20: the terms
\* (-f / FxOne)^k / k! of the series from term k on (twelve terms bring the
\* remainder under one unit).
RECURSIVE ExpSeries(_, _, _)
ExpSeries(f, k, term) ==
    IF k > 12 \/ term = 0 THEN 0
    ELSE term - ExpSeries(f, k + 1, (term * f) \div (FxOne * k))

\* exp(-n) for whole n >= 0 in units of 2^-15.
ExpWhole(n) ==
    LET table == <<32768, 12055, 4435, 1631, 600, 221, 81, 30, 11, 4, 1, 1>>
    IN  IF n < Len(table) THEN table[n + 1] ELSE 0

\* exp(d / FxOne) for d <= 0 in units of 2^-20:
\* exp(-n) * exp(-f / FxOne) with -d = n * FxOne + f.
ExpNeg(d) ==
    LET n == (-d) \div FxOne
        f == (-d) % FxOne
    IN  (ExpWhole(n) * (ExpSeries(f, 1, Pow2(20)) \div 32) + Pow2(9)) \div Pow2(10)

\* exp(f / FxOne) for 0 <= f < FxOne in units of 2^-29: the terms
\* (f / FxOne)^k / k! of the series from term k on.
RECURSIVE ExpSeriesUp(_, _, _)
ExpSeriesUp(f, k, term) ==
    IF k > 14 \/ term = 0 THEN 0
    ELSE term + ExpSeriesUp(f, k + 1,
             ((term \div FxOne) * f + ((term % FxOne) * f) \div FxOne) \div k)

\* exp(n) for whole 0 <= n <= 13 as m * 2^e with 2^27 <= m < 2^28.
ExpUp(n) ==
    LET ms == <<134217728, 182420806, 247935580, 168489696, 229001239,
                155622477, 211512875, 143737901, 195360063, 265521854,
                180440808, 245244484, 166660906, 226515657>>
        es == <<-27, -26, -25, -23, -22, -20, -19, -17, -16, -15, -13, -12, -10, -9>>
    IN  [m |-> ms[n + 1], e |-> es[n + 1]]

\* m * s / 2^28 for m < 2^28 and s < 2^31, by 14- and 15-bit limbs.
MulHi(m, s) ==
    LET m1 == m \div Pow2(14)
        m0 == m % Pow2(14)
        s1 == s \div Pow2(15)
        s0 == s % Pow2(15)
    IN  2 * m1 * s1 + (m1 * s0) \div Pow2(14) + (m0 * s1) \div Pow2(13)
            + (m0 * s0) \div Pow2(28)

\* exp(d / FxOne) for d > 0, to the nearest 1/FxOne: exp(n) * exp(f / FxOne)
\* with d = n * FxOne + f, rounded as an f32; FxInf from 2^20 on.
ExpPos(d) ==
    LET n == d \div FxOne
        f == d % FxOne
    IN  IF n > 13 THEN FxInf
        ELSE LET t  == ExpUp(n)
                 p  == RoundF32(MulHi(t.m, ExpSeriesUp(f, 1, Pow2(29))))
                 sh == t.e + 9
             IN  IF sh >= 0
                 THEN IF BitLen(p) + sh > 30 THEN FxInf ELSE p * Pow2(sh)
                 ELSE RoundHalfEven(p, Pow2(-sh))

\* f32::exp of a fixed-point d, to the nearest 1/FxOne.  FxInf stands for
\* every result of 2^20 and more, the infinity included: in units of
\* 1/FxOne these are beyond the integers of the model.
ExpFx(d) ==
    IF d <= 0 THEN (ExpNeg(d) + Pow2(9)) \div Pow2(10) ELSE ExpPos(d)

\* x / y in fixed point: the quotient rounded to an f32 and that value to
\* the nearest 1/FxOne, with the IEEE results of the special operands: NaN
\* for a NaN operand, for 0 / 0 and for inf / inf; the signed infinity for
\* x / 0 (the zero of the fixed point is +0.0) and for inf / y; 0 for
\* x / inf.  A quotient of 2^20 or more is FxInf with its sign.
DivFx(x, y) ==
    LET inf == IF (x < 0) # (y < 0) THEN -FxInf ELSE FxInf
    IN  IF x = FxNaN \/ y = FxNaN THEN FxNaN
        ELSE IF Abs(x) = FxInf THEN (IF Abs(y) = FxInf THEN FxNaN ELSE inf)
        ELSE IF Abs(y) = FxInf THEN 0
        ELSE IF y = 0 THEN (IF x = 0 THEN FxNaN ELSE inf)
        ELSE LET units(d) == ToUnits(d.m, d.e + 10, FxInf)
             IN  (IF (x < 0) # (y < 0) THEN -1 ELSE 1) * units(DivF32(Abs(x), Abs(y), 0))

RECURSIVE MaxSeq(_)
MaxSeq(s) ==
    IF Len(s) = 0 THEN FxNaN
    ELSE IF Len(s) = 1 THEN s[1]
    ELSE Max(Head(s), MaxSeq(Tail(s)))

\* The three passes of tensor_softmax_inplace over the first n1, n2 and n3
\* elements of the axis: the maximum, exp(val - max) summed, val / sum.
SoftmaxPasses(t, n1, n2, n3) ==
    LET offs == iter_axis_offsets(t, <<0>>, 0).offs
        max  == MaxSeq([i \in 1..n1 |-> t.buf[offs[i] + 1]])
        e(i) == IF i <= n2 THEN ExpFx(t.buf[offs[i] + 1] - max) ELSE t.buf[offs[i] + 1]
        sum  == SumSeq([i \in 1..n2 |-> e(i)])
        v(i) == IF i <= n3 THEN DivFx(e(i), sum) ELSE e(i)
    IN  [t EXCEPT !.buf = [j \in 1..Len(t.buf) |->
            IF \E i \in 1..Len(offs) : offs[i] + 1 = j
            THEN v(CHOOSE i \in 1..Len(offs) : offs[i] + 1 = j)
            ELSE t.buf[j]]]

tensor_softmax_inplace_all(t, limit) ==
    IF ~require_tensor_dims(t, {1}) THEN [status |-> "err", t |-> t]
    ELSE LET n == Min(limit, t.shape[1])
         IN  [status |-> "ok", t |-> SoftmaxPasses(t, n, n, t.shape[1])]

\* tensor_softmax_inplace: every pass is cut by take(limit).
tensor_softmax_inplace(t, limit) ==
    IF ~require_tensor_dims(t, {1}) THEN [status |-> "err", t |-> t]
    ELSE LET n == Min(limit, t.shape[1])
         IN  [status |-> "ok", t |-> SoftmaxPasses(t, n, n, n)]

----------------------------------------------------------------------------
(* The in-place elementwise primitives of tensor/arithmetic.rs.  They take *)
(* the tensor by value and return it: a result is [status, t], "ok" with   *)
(* the rewritten tensor, "err" with the tensor dropped.  Elements are in   *)
(* fixed point, in units of 1/FxOne.                                       *)

Dropped == [status |-> "err", t |-> NoTensor]

\* require_tensor_shape
require_tensor_shape(t, shape) == t.shape = shape

\* x * y in fixed point, to the nearest 1/FxOne.
MulFx(x, y) ==
    (x \div FxOne) * y + ((x % FxOne) * y + FxOne \div 2) \div FxOne

\* n / (1.0 + (-n).exp()), to the nearest 1/FxOne.  For n > 0 the
\* exponential is under 1 and is taken in units of 2^-20; for n <= 0 an
\* exponential of 2^20 or more leaves a quotient under half a unit.
SiluFx(n) ==
    IF n > 0
    THEN (ShlDiv(n, Pow2(20) + ExpNeg(-n), 21) + 1) \div 2
    ELSE LET e == ExpFx(-n)
         IN  IF e >= FxInf THEN 0 ELSE DivFx(n, FxOne + e)

\* CpuTensor::iter: the elements in logical (row-major) order.
tensor_iter(t) ==
    LET cs == ContiguousStrides(t.shape)
    IN  [i \in 1..Prod(t.shape) |->
            At(t, [d \in 1..Rank(t) |-> ((i - 1) \div cs[d]) % t.shape[d]])]

\* CpuTensor::iter_mut / par_iter_mut / par_iter: the flat buffer of a
\* contiguous tensor, an error value for any other layout.
flat_iter_ok(t) == is_contiguous(t)

\* sqrt(t / len) for t > 0 as [m, e] with value m * 2^e: the quotient to
\* 29 or 30 bits, its root to 27 (t < 2^30, 0 < len < 2^28).
MeanRoot(t, len_) ==
    LET s == 2 * ((30 - BitLen(t)) \div 2)
        d == (t * Pow2(s)) \div len_
        k == 27 - (BitLen(d) + 1) \div 2
    IN  [m |-> SqrtShl(d, k).root, e |-> -(k + s \div 2)]

\* v * v for 0 <= v <= 2^24, as [hi, lo] with value hi * 2^24 + lo.
SqLimbs(v) ==
    LET hv  == v \div Pow2(12)
        lv  == v % Pow2(12)
        mid == 2 * hv * lv
        low == (mid % Pow2(12)) * Pow2(12) + lv * lv
    IN  [hi |-> hv * hv + mid \div Pow2(12) + low \div Pow2(24), lo |-> low % Pow2(24)]

\* tensor_rms_norm_inplace: rms = ((sum of n * n) / len + eps).sqrt(), then
\* every element divided by rms, to the nearest 1/FxOne.  The squares are
\* summed exactly in two limbs, in units of 1/FxOne^2 (elements of more
\* than the 24 bits of an f32 are first scaled by 2^g to 24); the mean and
\* the root keep 27 bits and more (len < 64).  A zero rms divides by 0.0,
\* a negative mean has a NaN root.
tensor_rms_norm_inplace(x, eps) ==
    IF ~require_tensor_contiguous(x) THEN Dropped
    ELSE IF ~require_tensor_dims(x, {1}) THEN Dropped
    ELSE LET len_ == x.shape[1]
             top  == MaxSeq([i \in 1..len_ |-> Abs(x.buf[i])])
             g    == Max(0, BitLen(top) - 24)
             sq   == [i \in 1..len_ |-> SqLimbs(RoundHalfEven(Abs(x.buf[i]), Pow2(g)))]
             los  == SumSeq([i \in 1..len_ |-> sq[i].lo]) + (eps * FxOne * len_) \div Pow2(2 * g)
             hi   == SumSeq([i \in 1..len_ |-> sq[i].hi]) + los \div Pow2(24)
             lo   == los % Pow2(24)
             c    == BitLen(hi)
             d    == IF c <= 6 THEN 0 ELSE 2 * ((c - 5) \div 2)
             rms  == MeanRoot(hi * Pow2(24 - d) + lo \div Pow2(d), len_)
             q(v) == LET q2 == ShlDiv(Abs(v), rms.m, 11 - g - d \div 2 - rms.e)
                     IN  (q2 \div 2) + (q2 % 2)
         IN  [status |-> "ok",
              t |-> [x EXCEPT !.buf = [i \in 1..Len(x.buf) |->
                        IF hi < 0 \/ (hi = 0 /\ lo = 0 /\ x.buf[i] = 0) THEN FxNaN
                        ELSE IF hi = 0 /\ lo = 0 THEN (IF x.buf[i] < 0 THEN -FxInf ELSE FxInf)
                        ELSE IF x.buf[i] < 0 THEN -q(x.buf[i]) ELSE q(x.buf[i])]]]

\* tensor_mul_inplace: a.iter_mut() zipped with b.iter().
tensor_mul_inplace(ta, tb) ==
    IF ~require_tensor_shape(ta, tb.shape) THEN Dropped
    ELSE IF ~flat_iter_ok(ta) THEN Dropped
    ELSE LET bs == tensor_iter(tb)
         IN  [status |-> "ok",
              t |-> [ta EXCEPT !.buf = [i \in 1..Len(ta.buf) |->
                        IF i <= Len(bs) THEN MulFx(ta.buf[i], bs[i]) ELSE ta.buf[i]]]]

\* tensor_add_inplace: a.par_iter_mut() zipped with b.par_iter().
tensor_add_inplace(ta, tb) ==
    IF ~require_tensor_shape(ta, tb.shape) THEN Dropped
    ELSE IF ~require_tensor_contiguous(ta) THEN Dropped
    ELSE IF ~require_tensor_contiguous(tb) THEN Dropped
    ELSE [status |-> "ok",
          t |-> [ta EXCEPT !.buf = [i \in 1..Len(ta.buf) |->
                    IF i <= Len(tb.buf) THEN ta.buf[i] + tb.buf[i] ELSE ta.buf[i]]]]

\* tensor_silu_inplace
tensor_silu_inplace(x) ==
    IF ~flat_iter_ok(x) THEN Dropped
    ELSE [status |-> "ok",
          t |-> [x EXCEPT !.buf = [i \in 1..Len(x.buf) |-> SiluFx(x.buf[i])]]]

----------------------------------------------------------------------------
(* Operand tensors.                                                        *)

TensorShapes == UNION { [1..r -> 1..MaxDim] : r \in 1..3 }

Layouts == {"contiguous", "view"}

\* The fill of the left operand (1, 2, 3, ...) and, by pattern, of the
\* right operand (all ones; 1, 2, 3, ...; mixed signs).
FillW(i) == i + 1

FillX(seed, i) ==
    CASE seed = 0 -> 1
      [] seed = 1 -> i + 1
      [] OTHER    -> seed - 3 * i

\* A contiguous tensor over the buffer `vals`, or a view: of rank 1, every
\* second element of a buffer twice as long; of higher rank, the transpose
\* (axes reversed) of a contiguous tensor.
MkTensor(shape, layout, vals) ==
    IF layout = "contiguous" THEN NewTensor(SubSeq(vals, 1, Prod(shape)), shape)
    ELSE IF Len(shape) = 1
    THEN [shape |-> shape, strides |-> <<2>>, buf |-> SubSeq(vals, 1, 2 * shape[1])]
    ELSE [shape |-> shape,
          strides |-> Reverse(ContiguousStrides(Reverse(shape))),
          buf |-> SubSeq(vals, 1, Prod(shape))]

MaxElems == 2 * MaxDim * MaxDim * MaxDim

WInputs ==
    { MkTensor(shape, layout, [i \in 1..MaxElems |-> FillW(i - 1)]) :
        shape \in TensorShapes, layout \in Layouts }

XInputs ==
    { MkTensor(shape, layout, [i \in 1..MaxElems |-> FillX(seed, i - 1)]) :
        shape \in TensorShapes, layout \in Layouts, seed \in 0..MaxFill }

----------------------------------------------------------------------------
(* Specification SpecTensor: the driver loads two operand tensors and      *)
(* calls tensor_matmul_2d or tensor_batch_matmul on them.                  *)

LoadTensors ==
    /\ tw = NoTensor
    /\ \E w \in WInputs, x \in XInputs :
          /\ tw' = w
          /\ tx' = x
    /\ tout' = NoOut
    /\ UNCHANGED <<a, res, it, bm, bf, qz, mq, rp, par>>

TensorMatmul2d ==
    /\ tw # NoTensor
    /\ LET r == tensor_matmul_2d(tw, tx)
       IN  tout' = [op |-> "matmul_2d", status |-> r.status, t |-> r.t,
                    limit |-> 0, pre |-> NoTensor]
    /\ UNCHANGED <<a, res, it, tw, tx, bm, bf, qz, mq, rp, par>>

TensorBatchMatmul ==
    /\ tw # NoTensor
    /\ LET r == tensor_batch_matmul(tw, tx)
       IN  tout' = [op |-> "batch_matmul", status |-> r.status, t |-> r.t,
                    limit |-> 0, pre |-> NoTensor]
    /\ UNCHANGED <<a, res, it, tw, tx, bm, bf, qz, mq, rp, par>>

\* The operands and the output are dropped after a call.
DropTensors ==
    /\ tout.op # "none"
    /\ tw' = NoTensor
    /\ tx' = NoTensor
    /\ tout' = NoOut
    /\ UNCHANGED <<a, res, it, bm, bf, qz, mq, rp, par>>

NextTensor == LoadTensors \/ TensorMatmul2d \/ TensorBatchMatmul \/ DropTensors

SpecTensor == Init /\ [][NextTensor]_vars

----------------------------------------------------------------------------
(* Specification SpecSoftmax: the driver loads a tensor of whole numbers   *)
(* and calls tensor_softmax_inplace or one of the in-place elementwise     *)
(* primitives on it once.                                                  *)

ScaleFx(t) == [t EXCEPT !.buf = [j \in 1..Len(t.buf) |-> t.buf[j] * FxOne]]

\* Score vectors of up to MaxDim + 1 elements, and tensors of other ranks.
ScoreInputs ==
    { ScaleFx(MkTensor(shape, layout, [i \in 1..MaxElems |-> FillX(seed, i - 1)])) :
        shape \in TensorShapes \cup {<<MaxDim + 1>>},
        layout \in Layouts, seed \in 0..MaxFill }

LoadScores ==
    /\ tw = NoTensor
    /\ tout.op = "none"
    /\ \E t \in ScoreInputs : tw' = t
    /\ tout' = NoOut
    /\ UNCHANGED <<a, res, it, tx, bm, bf, qz, mq, rp, par>>

TensorSoftmax ==
    /\ tw # NoTensor
    /\ tout.op = "none"
    /\ \E limit \in 0..(MaxDim + 2) :
          LET r == tensor_softmax_inplace(tw, limit)
          IN  /\ tw' = r.t
              /\ tout' = [op |-> "softmax", status |-> r.status, t |-> NoTensor,
                          limit |-> limit, pre |-> tw]
    /\ UNCHANGED <<a, res, it, tx, bm, bf, qz, mq, rp, par>>

\* The second operand of an elementwise call: of the first one's shape, in
\* either layout, or a vector.
OperandInputs(t) == { b \in ScoreInputs : b.shape = t.shape \/ b.shape = <<MaxDim>> }

\* The epsilons of a call: none, and 1.0.
EpsInputs == {0, FxOne}

\* A call that takes its operand by value: tw is the tensor it returned,
\* or nothing after an error value.
InplaceCall(op, r, arg, b) ==
    /\ tw' = r.t
    /\ tx' = b
    /\ tout' = [op |-> op, status |-> r.status, t |-> NoTensor,
                limit |-> arg, pre |-> tw]
    /\ UNCHANGED <<a, res, it, bm, bf, qz, mq, rp, par>>

TensorRmsNorm ==
    /\ tw # NoTensor
    /\ tout.op = "none"
    /\ \E eps \in EpsInputs :
          InplaceCall("rms_norm", tensor_rms_norm_inplace(tw, eps), eps, NoTensor)

TensorMulInplace ==
    /\ tw # NoTensor
    /\ tout.op = "none"
    /\ \E b \in OperandInputs(tw) :
          InplaceCall("mul", tensor_mul_inplace(tw, b), 0, b)

TensorAddInplace ==
    /\ tw # NoTensor
    /\ tout.op = "none"
    /\ \E b \in OperandInputs(tw) :
          InplaceCall("add", tensor_add_inplace(tw, b), 0, b)

TensorSiluInplace ==
    /\ tw # NoTensor
    /\ tout.op = "none"
    /\ InplaceCall("silu", tensor_silu_inplace(tw), 0, NoTensor)

NextSoftmax ==
    \/ LoadScores \/ TensorSoftmax \/ TensorRmsNorm \/ TensorMulInplace
    \/ TensorAddInplace \/ TensorSiluInplace \/ DropTensors

SpecSoftmax == Init /\ [][NextSoftmax]_vars

----------------------------------------------------------------------------
(* Claims about the tensor primitives.                                     *)

\* sum_k W[i,k] * X[k] and sum_k W[i,k] * X[k,j]
RowDotVec(w, x, i) ==
    SumSeq([k \in 1..w.shape[2] |-> At(w, <<i, k - 1>>) * At(x, <<k - 1>>)])

RowDotCol(w, x, i, j) ==
    SumSeq([k \in 1..w.shape[2] |-> At(w, <<i, k - 1>>) * At(x, <<k - 1, j>>)])

Matmul2dPost(w, x, o) ==
    LET r == w.shape[1]
        c == w.shape[2]
    IN  /\ (Rank(x) = 1 /\ x.shape[1] = c) =>
              /\ o.status = "ok"
              /\ o.t.shape = <<r>>
              /\ \A i \in 0..(r - 1) : At(o.t, <<i>>) = RowDotVec(w, x, i)
        /\ (Rank(x) = 2 /\ x.shape[1] = c) =>
              /\ o.status = "ok"
              /\ o.t.shape = <<r, x.shape[2]>>
              /\ \A i \in 0..(r - 1), j \in 0..(x.shape[2] - 1) :
                    At(o.t, <<i, j>>) = RowDotCol(w, x, i, j)

\* C6: for contiguous W of shape (r, c), tensor_matmul_2d(W, X) returns
\* out[i] = sum_k W[i,k]*X[k] of shape (r,) for X of shape (c,), and
\* out[i,j] = sum_k W[i,k]*X[k,j] of shape (r, n) for X of shape (c, n);
\* the call leaves W and X unchanged.
C6_Matmul2d ==
    [][ (tout'.op = "matmul_2d" /\ Rank(tw) = 2 /\ is_contiguous(tw)) =>
            /\ tw' = tw
            /\ tx' = tx
            /\ Matmul2dPost(tw, tx, tout') ]_vars

C6_Witness ==
    /\ tout.op = "matmul_2d"
    /\ tout.status = "ok"
    /\ tw = NewTensor(<<1, 2, 3, 4>>, <<2, 2>>)
    /\ tx = NewTensor(<<1, 2, 3, 4>>, <<2, 2>>)
    /\ tout.t = NewTensor(<<7, 10, 15, 22>>, <<2, 2>>)

\* C7: tensor_matmul_2d returns an error value (no panic, no output) when
\* W.rank # 2, X.rank is not 1 or 2, W.cols # X.rows or W is not
\* contiguous, and Ok in every other case.
C7_Matmul2dErrors ==
    tout.op = "matmul_2d" =>
        LET failure == \/ Rank(tw) # 2
                       \/ Rank(tx) \notin {1, 2}
                       \/ tw.shape[2] # tx.shape[1]
                       \/ ~is_contiguous(tw)
        IN  /\ failure => (tout.status = "err" /\ tout.t = NoTensor)
            /\ ~failure => tout.status = "ok"

C7_Witness ==
    /\ tout.op = "matmul_2d"
    /\ tout.status = "err"
    /\ Rank(tw) = 2
    /\ Rank(tx) = 1
    /\ tw.shape[2] = tx.shape[1]
    /\ ~is_contiguous(tw)

BatchDot(w, x, i, j, l) ==
    SumSeq([t \in 1..w.shape[3] |-> At(w, <<i, j, t - 1>>) * At(x, <<i, t - 1, l>>)])

\* C9: tensor_batch_matmul(w, x) with w of shape (b, r, k) and x of shape
\* (b, k, c) returns out[i,j,l] = sum_t w[i,j,t]*x[i,t,l] of shape
\* (b, r, c); it returns an error value when w is not of rank 3, x is not
\* of rank 2 or 3, the batch sizes differ or w.shape[2] # x.shape[1].
C9_BatchMatmul ==
    tout.op = "batch_matmul" =>
        LET failure == \/ Rank(tw) # 3
                       \/ Rank(tx) \notin {2, 3}
                       \/ tw.shape[1] # tx.shape[1]
                       \/ tw.shape[3] # tx.shape[2]
        IN  /\ failure => (tout.status = "err" /\ tout.t = NoTensor)
            /\ (~failure /\ Rank(tx) = 3) =>
                  /\ tout.status = "ok"
                  /\ tout.t.shape = <<tw.shape[1], tw.shape[2], tx.shape[3]>>
                  /\ \A i \in 0..(tw.shape[1] - 1), j \in 0..(tw.shape[2] - 1),
                        l \in 0..(tx.shape[3] - 1) :
                        At(tout.t, <<i, j, l>>) = BatchDot(tw, tx, i, j, l)

C9_Witness ==
    /\ tout.op = "batch_matmul"
    /\ tout.status = "ok"
    /\ tw = NewTensor(<<1, 2, 3, 4, 5, 6, 7, 8>>, <<2, 2, 2>>)
    /\ tx = NewTensor(<<1, 1, 1, 1>>, <<2, 2, 1>>)
    /\ tout.t = NewTensor(<<3, 7, 11, 15>>, <<2, 2, 1>>)

\* C10: tensor_softmax_inplace(t, limit) on a rank-1 t leaves every element
\* at index >= limit unchanged, for any limit (0 and limit >= len
\* included), and leaves t entirely unchanged when it returns an error
\* (rank # 1).
C10_SoftmaxFrame ==
    tout.op = "softmax" =>
        /\ tw.shape = tout.pre.shape
        /\ tw.strides = tout.pre.strides
        /\ Rank(tout.pre) # 1 => (tout.status = "err" /\ tw = tout.pre)
        /\ tout.status = "err" => tw = tout.pre
        /\ Rank(tout.pre) = 1 =>
              /\ tout.status = "ok"
              /\ \A i \in 0..(tw.shape[1] - 1) :
                    i >= tout.limit => At(tw, <<i>>) = At(tout.pre, <<i>>)

C10_Witness ==
    /\ tout.op = "softmax"
    /\ tout.status = "ok"
    /\ tout.limit = 2
    /\ tout.pre = NewTensor(<<1 * FxOne, 2 * FxOne, 3 * FxOne>>, <<3>>)
    /\ tw = NewTensor(<<276, 748, 3 * FxOne>>, <<3>>)

----------------------------------------------------------------------------
(* The batch_matmul primitive (backends/cpu/primitives/batch_matmul.rs)    *)
(* over flat buffers and two shape/stride descriptors.  Buffers are        *)
(* sequences of whole numbers; an f16 buffer holds values F16Round keeps.  *)

\* half::f16::from_f32 on a whole number: exact below 2048, then to the
\* nearest representable multiple of a power of two (ties to even).
RECURSIVE F16Ulp(_)
F16Ulp(mag) == IF mag < 2048 THEN 1 ELSE 2 * F16Ulp(mag \div 2)

F16Round(x) ==
    LET mag == IF x < 0 THEN -x ELSE x
        p   == F16Ulp(mag)
        q   == mag \div p
        rem == mag % p
        up  == 2 * rem > p \/ (2 * rem = p /\ q % 2 = 1)
        r   == IF up THEN (q + 1) * p ELSE q * p
    IN  IF x < 0 THEN -r ELSE r

\* quantize_f32_f16
quantize_f32_f16(buf) == [i \in 1..Len(buf) |-> F16Round(buf[i])]

\* vec_dot_f16_f16(a, a_offset, b, b_offset, len): accumulated in f16.
RECURSIVE vec_dot_f16_f16(_, _, _, _, _)
vec_dot_f16_f16(x, x_offset, y, y_offset, n) ==
    IF n = 0 THEN 0
    ELSE F16Round(vec_dot_f16_f16(x, x_offset, y, y_offset, n - 1)
                  + x[x_offset + n] * y[y_offset + n])

BatchPanic(bufc) == [status |-> "panic", c |-> bufc]

batch_matmul_naive_f32_overwrite(bufa, bufb, bufc, stride1, stride2) ==
    LET a_batch == stride1.shape[1]
        b_batch == stride2.shape[1]
        m == stride1.shape[2]
        k == stride1.shape[3]
        n == stride2.shape[3]
        ia(bi, mi, ki) == bi * stride1.strides[1] + mi * stride1.strides[2]
                          + ki * stride1.strides[3]
        ib(bi, ki, ni) == (bi % b_batch) * stride2.strides[1] + ki * stride2.strides[2]
                          + ni * stride2.strides[3]
        bOf(e) == e \div (m * n)
        mOf(e) == (e \div n) % m
        nOf(e) == e % n
        steps == a_batch * m * n * k
        Fails(s) == \/ ia(bOf(s \div k), mOf(s \div k), s % k) >= Len(bufa)
                    \/ ib(bOf(s \div k), s % k, nOf(s \div k)) >= Len(bufb)
                    \/ s \div k >= Len(bufc)
        failing == { s \in 0..(steps - 1) : Fails(s) }
        first == IF failing = {} THEN steps
                 ELSE CHOOSE s \in failing : \A t \in failing : s <= t
        done(e) == Min(k, Max(0, first - e * k))
    IN  IF a_batch < b_batch THEN BatchPanic(bufc)
        ELSE [status |-> IF first < steps THEN "panic" ELSE "ok",
              c |-> [i \in 1..Len(bufc) |->
                  IF i > a_batch * m * n THEN bufc[i]
                  ELSE SumSeq([kk \in 1..done(i - 1) |->
                           bufa[ia(bOf(i - 1), mOf(i - 1), kk - 1) + 1]
                           * bufb[ib(bOf(i - 1), kk - 1, nOf(i - 1)) + 1]])]]

\* batch_matmul_naive_f32: the loops over bi, mi, ni, ki, each step
\* bufc[bi*m*n + mi*n + ni] += a * b; the first index out of range ends the
\* call fatally, with every earlier step's product already added.
batch_matmul_naive_f32(bufa, bufb, bufc, stride1, stride2) ==
    LET a_batch == stride1.shape[1]
        b_batch == stride2.shape[1]
        m == stride1.shape[2]
        k == stride1.shape[3]
        n == stride2.shape[3]
        ia(bi, mi, ki) == bi * stride1.strides[1] + mi * stride1.strides[2]
                          + ki * stride1.strides[3]
        ib(bi, ki, ni) == (bi % b_batch) * stride2.strides[1] + ki * stride2.strides[2]
                          + ni * stride2.strides[3]
        bOf(e) == e \div (m * n)
        mOf(e) == (e \div n) % m
        nOf(e) == e % n
        steps == a_batch * m * n * k
        Fails(s) == \/ ia(bOf(s \div k), mOf(s \div k), s % k) >= Len(bufa)
                    \/ ib(bOf(s \div k), s % k, nOf(s \div k)) >= Len(bufb)
                    \/ s \div k >= Len(bufc)
        failing == { s \in 0..(steps - 1) : Fails(s) }
        first == IF failing = {} THEN steps
                 ELSE CHOOSE s \in failing : \A t \in failing : s <= t
        done(e) == Min(k, Max(0, first - e * k))
    IN  IF a_batch < b_batch THEN BatchPanic(bufc)
        ELSE [status |-> IF first < steps THEN "panic" ELSE "ok",
              c |-> [i \in 1..Len(bufc) |->
                  IF i > a_batch * m * n THEN bufc[i]
                  ELSE bufc[i] + SumSeq([kk \in 1..done(i - 1) |->
                           bufa[ia(bOf(i - 1), mOf(i - 1), kk - 1) + 1]
                           * bufb[ib(bOf(i - 1), kk - 1, nOf(i - 1)) + 1]])]]

\* vec_fma_f16_f16 applied for ki = 0..kk-1 to one element of tmpc: each
\* step adds b[ki, ni] * a[mi, ki] and rounds to f16.
RECURSIVE vec_fma_f16_f16(_, _, _, _, _, _)
vec_fma_f16_f16(bufa, bufb, offset_a, offset_b, ni, kk) ==
    IF kk = 0 THEN 0
    ELSE F16Round(vec_fma_f16_f16(bufa, bufb, offset_a, offset_b, ni, kk - 1)
                  + bufb[offset_b[kk] + ni + 1] * bufa[offset_a + kk])

\* batch_matmul_simd_f16: a scratch tmpc of b_batch*m*n f16 values is
\* filled by dot products (B contiguous on K) or by fused multiply-adds
\* (B contiguous on N) and copied over the head of bufc.
batch_matmul_simd_f16(bufa, bufb, bufc, stride1, stride2) ==
    LET a_batch == stride1.shape[1]
        b_batch == stride2.shape[1]
        m == stride1.shape[2]
        k == stride1.shape[3]
        n == stride2.shape[3]
        stride_bb == stride2.strides[1]
        stride_bk == stride2.strides[2]
        stride_bn == stride2.strides[3]
        tmplen == b_batch * m * n
        niOf(i) == i % n
        miOf(i) == ((i - niOf(i)) \div n) % m
        biOf(i) == (i - niOf(i) - miOf(i) * n) \div (m * n)
        offset_a(i) == biOf(i) * (m * k) + miOf(i) * k
        offset_b(i) == (biOf(i) % b_batch) * stride_bb + niOf(i) * stride_bn
        copy(tmpc) == [i \in 1..Len(bufc) |-> IF i <= Len(tmpc) THEN tmpc[i] ELSE bufc[i]]
    IN  IF a_batch < b_batch THEN BatchPanic(bufc)
        ELSE IF stride_bk = 1
        THEN IF \E i \in 0..(tmplen - 1) :
                    offset_b(i) + k > Len(bufb) \/ offset_a(i) + k > Len(bufa)
             THEN BatchPanic(bufc)
             ELSE [status |-> "ok",
                   c |-> copy([i \in 1..tmplen |->
                            F16Round(vec_dot_f16_f16(bufa, offset_a(i - 1),
                                SubSeq(bufb, offset_b(i - 1) + 1, offset_b(i - 1) + k),
                                0, k))])]
        ELSE IF stride_bn = 1
        THEN LET offb(bi) == [kk \in 1..k |-> (bi % b_batch) * stride_bb + (kk - 1) * stride_bk]
             IN  IF \E bi \in 0..(a_batch - 1), mi \in 0..(m - 1), ki \in 0..(k - 1) :
                        \/ bi * (m * k) + mi * k + ki >= Len(bufa)
                        \/ offb(bi)[ki + 1] + n > Len(bufb)
                        \/ bi * (m * n) + mi * n + n > tmplen
                 THEN BatchPanic(bufc)
                 ELSE [status |-> "ok",
                       c |-> copy([i \in 1..tmplen |->
                                LET bi == (i - 1) \div (m * n)
                                    mi == ((i - 1) \div n) % m
                                    ni == (i - 1) % n
                                IN  vec_fma_f16_f16(bufa, bufb, bi * (m * k) + mi * k,
                                                    offb(bi), ni, k)])]
        ELSE BatchPanic(bufc)

\* batch_matmul: the assertions on the descriptors and dtypes, then the
\* F32 or the F16 kernel by the dtype of bufb.  bufa and bufc are F32.
batch_matmul(bufa, bufb, bdtype, bufc, strider1, strider2) ==
    IF \/ Len(strider1.shape) # 3
       \/ Len(strider2.shape) # 3
       \/ ~is_contiguous(strider1)
       \/ ~(strider2.strides[2] = 1 \/ strider2.strides[3] = 1)
       \/ bdtype \notin {"F32", "F16"}
    THEN BatchPanic(bufc)
    ELSE IF bdtype = "F32"
    THEN batch_matmul_naive_f32(bufa, bufb, bufc, strider1, strider2)
    ELSE batch_matmul_simd_f16(quantize_f32_f16(bufa), bufb, bufc, strider1, strider2)

----------------------------------------------------------------------------
(* SpecBatch: operands are laid out, batch_matmul is called up to MaxCalls *)
(* times on the same output buffer, and the operands are dropped.          *)

ALayouts == {"contiguous", "view", "flat"}
BLayouts == {"k", "n", "strided"}

\* The descriptor of A: contiguous (a_batch, m, k), a transposed view of it,
\* or a rank-2 descriptor.
StriderA(layout, ab, m, k) ==
    IF layout = "contiguous"
    THEN [shape |-> <<ab, m, k>>, strides |-> <<m * k, k, 1>>]
    ELSE IF layout = "view"
    THEN [shape |-> <<ab, m, k>>, strides |-> <<m * k, 1, m>>]
    ELSE [shape |-> <<ab * m, k>>, strides |-> <<k, 1>>]

\* The descriptor of B, logical shape (b_batch, k, n): contiguous on K,
\* contiguous on N, or contiguous on neither axis.
StriderB(layout, bb, k, n) ==
    IF layout = "k"
    THEN [shape |-> <<bb, k, n>>, strides |-> <<k * n, 1, k>>]
    ELSE IF layout = "n"
    THEN [shape |-> <<bb, k, n>>, strides |-> <<k * n, n, 1>>]
    ELSE [shape |-> <<bb, k, n>>, strides |-> <<2 * k * n, 2 * n, 2>>]

BufLenB(layout, bb, k, n) == IF layout = "strided" THEN 2 * bb * k * n ELSE bb * k * n

LoadBatch ==
    /\ bm = NoBatch
    /\ \E ab \in 1..MaxBatch, bb \in 1..MaxBatch, m \in 1..MaxDim, k \in 1..MaxDim,
          n \in 1..MaxDim, la \in ALayouts, lb \in BLayouts, dt \in {"F32", "F16"},
          seed \in 0..MaxFill :
          bm' = [op |-> "load", status |-> "ok",
                 a |-> [i \in 1..(ab * m * k) |-> FillW(i - 1)],
                 b |-> [i \in 1..BufLenB(lb, bb, k, n) |-> FillX(seed, i - 1)],
                 bdtype |-> dt,
                 c |-> [i \in 1..(ab * m * n) |-> 0],
                 c0 |-> [i \in 1..(ab * m * n) |-> 0],
                 s1 |-> StriderA(la, ab, m, k),
                 s2 |-> StriderB(lb, bb, k, n),
                 calls |-> 0]
    /\ UNCHANGED <<a, res, it, tw, tx, tout, bf, qz, mq, rp, par>>

BatchMatmul ==
    /\ bm.op # "none"
    /\ bm.status = "ok"
    /\ bm.calls < MaxCalls
    /\ LET r == batch_matmul(bm.a, bm.b, bm.bdtype, bm.c, bm.s1, bm.s2)
       IN  bm' = [bm EXCEPT !.op = "batch_matmul", !.status = r.status, !.c = r.c,
                            !.c0 = bm.c, !.calls = bm.calls + 1]
    /\ UNCHANGED <<a, res, it, tw, tx, tout, bf, qz, mq, rp, par>>

DropBatch ==
    /\ bm.op = "batch_matmul"
    /\ bm' = NoBatch
    /\ UNCHANGED <<a, res, it, tw, tx, tout, bf, qz, mq, rp, par>>

NextBatch == LoadBatch \/ BatchMatmul \/ DropBatch

SpecBatch == Init /\ [][NextBatch]_vars

\* The inputs the primitive is specified for: rank-3 descriptors, A
\* contiguous, B contiguous on K or on N with the K extents agreeing, the
\* batch of A a multiple of the batch of B, and C holding a_batch*m*n zeros.
BatchValid ==
    /\ Len(bm.s1.shape) = 3
    /\ Len(bm.s2.shape) = 3
    /\ is_contiguous(bm.s1)
    /\ bm.s2.strides[2] = 1 \/ bm.s2.strides[3] = 1
    /\ bm.s1.shape[3] = bm.s2.shape[2]
    /\ bm.s1.shape[1] % bm.s2.shape[1] = 0
    /\ bm.c0 = [i \in 1..(bm.s1.shape[1] * bm.s1.shape[2] * bm.s2.shape[3]) |-> 0]

\* sum over ki of A[bi, mi, ki] * B[bi mod b_batch, ki, ni]
BatchProduct(bi, mi, ni) ==
    SumSeq([kk \in 1..bm.s1.shape[3] |->
        bm.a[Offset(bm.s1, <<bi, mi, kk - 1>>) + 1]
        * bm.b[Offset(bm.s2, <<bi % bm.s2.shape[1], kk - 1, ni>>) + 1]])

BatchProductAt(c) ==
    \A bi \in 0..(bm.s1.shape[1] - 1), mi \in 0..(bm.s1.shape[2] - 1),
       ni \in 0..(bm.s2.shape[3] - 1) :
        c[bi * bm.s1.shape[2] * bm.s2.shape[3] + mi * bm.s2.shape[3] + ni + 1]
            = BatchProduct(bi, mi, ni)

\* C8: on valid inputs with a zero-initialised C, batch_matmul returns
\* without an out-of-bounds access and leaves C[bi, mi, ni] equal to the sum
\* over ki of A[bi, mi, ki] * B[bi mod b_batch, ki, ni], whether B is F32
\* or F16.
C8_BatchMatmulProduct ==
    (bm.op = "batch_matmul" /\ BatchValid)
        => (bm.status = "ok" /\ BatchProductAt(bm.c))

\* Every product sum, taken in magnitudes, is a whole number f16 holds
\* exactly, so the f16 accumulation loses nothing.
BatchExactInF16 ==
    \A bi \in 0..(bm.s1.shape[1] - 1), mi \in 0..(bm.s1.shape[2] - 1),
       ni \in 0..(bm.s2.shape[3] - 1) :
        SumSeq([kk \in 1..bm.s1.shape[3] |->
            LET p == bm.a[Offset(bm.s1, <<bi, mi, kk - 1>>) + 1]
                     * bm.b[Offset(bm.s2, <<bi % bm.s2.shape[1], kk - 1, ni>>) + 1]
            IN  IF p < 0 THEN -p ELSE p]) <= 2048

\* The part of C8 the kernels do keep: the F32 kernel always, the F16
\* kernel when A and B have the same batch size (up to f16 precision).
C8_F32OrEqualBatch ==
    (bm.op = "batch_matmul" /\ BatchValid
        /\ (bm.bdtype = "F32" \/ (bm.s1.shape[1] = bm.s2.shape[1] /\ BatchExactInF16)))
        => (bm.status = "ok" /\ BatchProductAt(bm.c))

\* An F16 call with a broadcast B on the N-contiguous path ends in a panic.
C8_F16BroadcastPanics ==
    bm.op = "batch_matmul" /\ BatchValid /\ bm.bdtype = "F16"
        /\ bm.s1.shape[1] > bm.s2.shape[1] /\ bm.status = "panic"

\* An F16 call with a broadcast B on the K-contiguous path returns with
\* the later batches of C never written.
C8_F16BroadcastShort ==
    bm.op = "batch_matmul" /\ BatchValid /\ bm.bdtype = "F16"
        /\ bm.s1.shape[1] > bm.s2.shape[1] /\ bm.status = "ok"
        /\ ~BatchProductAt(bm.c)

----------------------------------------------------------------------------
(* Buffer operations of the union (api.rs): dequantize, quantize,          *)
(* copy_from, extend, mutable access, clone.  An F32 element is a dyadic   *)
(* number, as the block codecs produce them.                               *)

\* x + y in f32 for dyadic x, y whose sum f32 holds exactly.
DyAdd(x, y) ==
    IF x.k = "nan" \/ y.k = "nan" THEN NaN
    ELSE IF x.k = "inf" /\ y.k = "inf" THEN (IF x.m = y.m THEN x ELSE NaN)
    ELSE IF x.k = "inf" THEN x
    ELSE IF y.k = "inf" THEN y
    ELSE IF x = NegZero /\ y = NegZero THEN NegZero
    ELSE LET e == Min(x.e, y.e)
         IN  Dy(x.m * Pow2(x.e - e) + y.m * Pow2(y.e - e), e)

\* The f16 at bytes o, o+1 (0-based) of a block starting at `base`.
F16At(raw, base, o) == F16ToF32(raw[base + o + 1] + 256 * raw[base + o + 2])

\* Element j (0-based) of block b (1-based) of a Q8_1 / Q4_0 / Q4_1 view,
\* dequantized: q*d, (nibble - 8)*d, nibble*d + m.
QuantBuf_dequantize_at(typ, raw, b, j) ==
    LET base == (b - 1) * BlockBytes(typ)
        nib(o) == LET byte == raw[base + o + (j \div 2) + 1]
                  IN  IF j % 2 = 0 THEN byte % 16 ELSE byte \div 16
    IN  CASE typ = "Q8_1" -> MulI8(I8(raw[base + 4 + j + 1]), F16At(raw, base, 0))
          [] typ = "Q4_0" -> MulI8(nib(2) - 8, F16At(raw, base, 0))
          [] typ = "Q4_1" -> DyAdd(MulI8(nib(4), F16At(raw, base, 0)), F16At(raw, base, 2))

\* QuantBuf*::dequantize(start).collect(): the dequantized elements from
\* element `start` to the end of the view; fatal on a start inside a block
\* and, for Q8_0, on a raw slice that is not whole blocks.
QuantBuf_dequantize(b, start) ==
    IF start % BLOCK_ELEMS # 0 THEN [status |-> "panic", vals |-> <<>>]
    ELSE IF b.variant = "Q8_0"
    THEN LET r == QuantBufQ8_0_blocks(b)
         IN  IF r.status = "panic" THEN [status |-> "panic", vals |-> <<>>]
             ELSE LET deq == [k \in 1..Len(r.blocks) |-> BlockQ8_0_dequantize(r.blocks[k])]
                  IN  [status |-> "ok",
                       vals |-> [i \in 1..(Max(len(b), start) - start) |->
                                   deq[((start + i - 1) \div BLOCK_ELEMS) + 1]
                                      [((start + i - 1) % BLOCK_ELEMS) + 1]]]
    ELSE [status |-> "ok",
          vals |-> [i \in 1..(Max(len(b), start) - start) |->
                      QuantBuf_dequantize_at(b.variant, b.raw,
                          ((start + i - 1) \div BLOCK_ELEMS) + 1,
                          (start + i - 1) % BLOCK_ELEMS)]]

\* An owned F32 buffer over a Vec<f32>.
OwnedF32(vals) ==
    [variant |-> "F32", owned |-> TRUE, f32 |-> vals, raw |-> <<>>, num_blocks |-> 0]

\* A borrowed F32 buffer over a &[f32].
BorrowedF32(vals) ==
    [variant |-> "F32", owned |-> FALSE, f32 |-> vals, raw |-> <<>>, num_blocks |-> 0]

BufErr == [status |-> "err", buf |-> NoBuf]
BufPanic == [status |-> "panic", buf |-> NoBuf]

\* CpuTensorBuf::dequantize: Err for a target other than F32 / F16; an F32
\* source is copied into an owned F32 buffer whatever the target; a
\* quantized source is decoded for F32 and is unimplemented!() for F16.
dequantize(b, target) ==
    IF target \notin {"F32", "F16"} THEN BufErr
    ELSE IF b.variant = "F32" THEN [status |-> "ok", buf |-> OwnedF32(b.f32)]
    ELSE IF target = "F32"
    THEN LET r == QuantBuf_dequantize(b, 0)
         IN  IF r.status = "panic" THEN BufPanic
             ELSE [status |-> "ok", buf |-> OwnedF32(r.vals)]
    ELSE BufPanic

\* The whole number a dyadic value stands for (exponent >= 0).
IntOf(x) == x.m * Pow2(x.e)

\* f32::round of n / d: nearest whole number, ties away from zero (d # 0).
RoundHalfAway(n, d) ==
    LET neg == (n < 0) # (d < 0)
        q   == (2 * Abs(n) + Abs(d)) \div (2 * Abs(d))
    IN  IF neg THEN -q ELSE q

\* `as i8` on a whole number: saturating.
SatI8(x) == IF x > 127 THEN 127 ELSE IF x < -128 THEN -128 ELSE x

\* The binary exponent s with 1024 <= (n / d) * 2^s < 2048 (n, d > 0).
RECURSIVE F16Shift(_, _)
F16Shift(n, d) ==
    IF n < 1024 * d THEN 1 + F16Shift(2 * n, d)
    ELSE IF n >= 2048 * d THEN F16Shift(n, 2 * d) - 1
    ELSE 0

\* f16::from_f32(p * 2^e / q) as a bit pattern (0 < q < 2^20, |p| < 2^24):
\* 11 significant bits, ties to even; an infinity from 65520 on; below
\* 2^-14 the subnormals, multiples of 2^-24.
F16FromRatioExp(p, q, e) ==
    IF p = 0 THEN 0
    ELSE LET sg   == IF p < 0 THEN 32768 ELSE 0
             n    == Abs(p)
             s    == F16Shift(n, q)
             mant == RoundHalfEven(n * Pow2(s), q * Pow2(-s))
             ex   == IF mant = 2048 THEN e - s + 26 ELSE e - s + 25
             frac == IF mant = 2048 THEN 0 ELSE mant - 1024
             u    == e + 24
         IN  IF ex >= 31 THEN sg + 31744
             ELSE IF ex >= 1 THEN sg + 1024 * ex + frac
             ELSE IF u >= 0 THEN sg + RoundHalfEven(n * Pow2(u), q)
             ELSE IF BitLen(q) - u > BitLen(n) + 2 THEN sg
             ELSE sg + RoundHalfEven(n, q * Pow2(-u))

\* f16::from_f32(p / q) as a bit pattern.
F16FromRatio(p, q) == F16FromRatioExp(p, q, 0)

\* `as i8` on an infinity of the given sign: saturating.
SatInf(neg) == IF neg THEN -128 ELSE 127

\* (x / d.to_f32()).round() as i8 for an f32 x and a decoded f16 d: a NaN
\* quotient (a NaN operand, 0 / 0, inf / inf) casts to 0, a quotient by an
\* infinity is a zero, an infinite quotient saturates by its sign, a finite
\* one is rounded half away from zero and saturated.
QuantI8(x, d) ==
    IF x.k = "nan" \/ d.k = "nan" THEN 0
    ELSE IF d.k = "inf" THEN 0
    ELSE IF x.k = "inf" THEN SatInf(DyNeg(x) # DyNeg(d))
    ELSE IF x.m = 0 THEN 0
    ELSE IF d.m = 0 THEN SatInf(DyNeg(x) # DyNeg(d))
    ELSE LET sh  == x.e - d.e
             n   == Abs(x.m)
             dd  == Abs(d.m)
             neg == (x.m < 0) # (d.m < 0)
             q   == IF sh >= 0
                    THEN (2 * n * Pow2(sh) + dd) \div (2 * dd)
                    ELSE (n \div Pow2(-sh - 1) + dd) \div (2 * dd)
         IN  IF sh >= 0 /\ BitLen(n) + sh > 29 THEN SatInf(neg)
             ELSE IF sh < -31 THEN 0
             ELSE SatI8(IF neg THEN -q ELSE q)

\* |x| > |y| for finite nonzero x, y.
MagGreater(x, y) ==
    LET hx == BitLen(Abs(x.m)) + x.e
        hy == BitLen(Abs(y.m)) + y.e
        lo == Min(x.e, y.e)
    IN  IF hx # hy THEN hx > hy
        ELSE Abs(x.m) * Pow2(x.e - lo) > Abs(y.m) * Pow2(y.e - lo)

\* x > y on f32: false with a NaN on either side, the two zeros equal.
DyGreater(x, y) ==
    IF x.k = "nan" \/ y.k = "nan" THEN FALSE
    ELSE IF x.k = "inf" THEN x.m > 0 /\ y # x
    ELSE IF y.k = "inf" THEN y.m < 0
    ELSE IF x.m = 0 \/ y.m = 0 \/ (x.m < 0) # (y.m < 0)
         THEN (IF x.m > 0 THEN 1 ELSE IF x.m < 0 THEN -1 ELSE 0)
                  > (IF y.m > 0 THEN 1 ELSE IF y.m < 0 THEN -1 ELSE 0)
    ELSE IF x.m > 0 THEN MagGreater(x, y) ELSE MagGreater(y, x)

\* f32::MIN = -(2^24 - 1) * 2^104
F32_MIN == [k |-> "num", m |-> 1 - Pow2(24), e |-> 104]

\* The scan `if chunk[i] > max { max = chunk[i] }` from element i on.
RECURSIVE ScanMax(_, _, _)
ScanMax(max, chunk, i) ==
    IF i > Len(chunk) THEN max
    ELSE IF DyGreater(chunk[i], max) THEN ScanMax(chunk[i], chunk, i + 1)
    ELSE ScanMax(max, chunk, i + 1)

\* The largest element of a chunk, as the scan from f32::MIN finds it.
ChunkMax(chunk) == ScanMax(F32_MIN, chunk, 1)

\* BlockQ8_0::quantize on one 32-element chunk of f32 values:
\* d = f16(max / 127), qs[i] = round(chunk[i] / d) as i8.
BlockQ8_0_quantize(chunk) ==
    LET max == ChunkMax(chunk)
        d   == IF max.k = "inf" THEN (IF max.m > 0 THEN 31744 ELSE 64512)
               ELSE IF max.m = 0 THEN (IF max = NegZero THEN 32768 ELSE 0)
               ELSE F16FromRatioExp(max.m, 127, max.e)
    IN  [d |-> d, qs |-> [i \in 1..BLOCK_ELEMS |-> QuantI8(chunk[i], F16ToF32(d))]]

\* The 34 bytes of a block.
BlockQ8_0_bytes(block) ==
    <<block.d % 256, block.d \div 256>>
        \o [i \in 1..BLOCK_ELEMS |-> (block.qs[i] + 256) % 256]

RECURSIVE Flatten(_)
Flatten(ss) == IF ss = <<>> THEN <<>> ELSE Head(ss) \o Flatten(Tail(ss))

\* QuantBufQ8_0::quantize(data): the blocks of BlockQ8_0::quantize over
\* data.chunks(32); a short last chunk is indexed past its end.
QuantBufQ8_0_quantize(vals) ==
    IF Len(vals) % BLOCK_ELEMS # 0 THEN BufPanic
    ELSE LET n == Len(vals) \div BLOCK_ELEMS
             blocks == [b \in 1..n |->
                 BlockQ8_0_quantize(SubSeq(vals, (b - 1) * BLOCK_ELEMS + 1,
                                           b * BLOCK_ELEMS))]
         IN  [status |-> "ok",
              buf |-> QuantBuf("Q8_0",
                  [raw |-> Flatten([b \in 1..n |-> BlockQ8_0_bytes(blocks[b])]),
                   num_blocks |-> n])]

\* QuantBufQ8_1 / Q4_0 / Q4_1 ::quantize(data): a view of one block per
\* 32-element chunk; the payload of these codecs is not modelled (zeros).
QuantBuf_quantize(typ, vals) ==
    IF Len(vals) % BLOCK_ELEMS # 0 THEN BufPanic
    ELSE LET n == Len(vals) \div BLOCK_ELEMS
         IN  [status |-> "ok",
              buf |-> QuantBuf(typ, [raw |-> [i \in 1..(n * BlockBytes(typ)) |-> 0],
                                     num_blocks |-> n])]

\* CpuTensorBuf::quantize: by target; as_f32_ref panics on a source that is
\* not F32; every target other than F32 and the four block formats is Err.
quantize(b, target) ==
    IF target \notin {"F32", "Q8_0", "Q8_1", "Q4_0", "Q4_1"} THEN BufErr
    ELSE IF b.variant # "F32" THEN BufPanic
    ELSE IF target = "F32" THEN [status |-> "ok", buf |-> OwnedF32(b.f32)]
    ELSE IF target = "Q8_0" THEN QuantBufQ8_0_quantize(b.f32)
    ELSE QuantBuf_quantize(target, b.f32)

CopyOffsets == {0, 1, BLOCK_ELEMS, BLOCK_ELEMS + 1}
CopyLens == (0..MaxDst) \cup {BLOCK_ELEMS + 1}

\* self.iter_f32_mut().zip(src_iter).for_each(|(dst, src)| *dst = src)
ZipWrite(dstvals, srcvals) ==
    [i \in 1..Len(dstvals) |-> IF i <= Len(srcvals) THEN srcvals[i] ELSE dstvals[i]]

\* iter.skip(offset).take(n) over a sequence
SkipTake(vals, offset, n) ==
    SubSeq(vals, offset + 1, Min(Len(vals), offset + n))

\* CpuTensorBuf::copy_from: asserts an owned F32 destination; an F32 source
\* is copied from `offset`, a Q8_0 source is decoded from a block-aligned
\* `offset`; every other source is unreachable!().
copy_from(dst, srcb, offset, n) ==
    IF ~is_owned(dst) THEN [status |-> "panic", buf |-> dst]
    ELSE IF dtype(dst) \notin {"F32", "F16"} THEN [status |-> "panic", buf |-> dst]
    ELSE IF srcb.variant = "F32"
    THEN [status |-> "ok",
          buf |-> [dst EXCEPT !.f32 = ZipWrite(dst.f32, SkipTake(srcb.f32, offset, n))]]
    ELSE IF srcb.variant = "Q8_0"
    THEN IF offset % 32 # 0 THEN [status |-> "panic", buf |-> dst]
         ELSE LET r == QuantBuf_dequantize(srcb, offset)
              IN  IF r.status = "panic" THEN [status |-> "panic", buf |-> dst]
                  ELSE [status |-> "ok",
                        buf |-> [dst EXCEPT !.f32 =
                                    ZipWrite(dst.f32, SkipTake(r.vals, 0, n))]]
    ELSE [status |-> "panic", buf |-> dst]

\* QuantBufQ8_0::blocks_range: &self.blocks()[start / 32..end / 32]; the
\* slice index is fatal when start / 32 > end / 32 or end / 32 is past the
\* last block.
QuantBufQ8_0_blocks_range(q, start, end) ==
    LET bs == QuantBufQ8_0_blocks(q)
        lo == start \div 32
        hi == end \div 32
    IN  IF bs.status = "panic" \/ lo > hi \/ hi > Len(bs.blocks)
        THEN [status |-> "panic", blocks |-> <<>>]
        ELSE [status |-> "ok", blocks |-> SubSeq(bs.blocks, lo + 1, hi)]

RECURSIVE SumDy(_)
SumDy(s) == IF s = <<>> THEN Dy(0, 0) ELSE DyAdd(Head(s), SumDy(Tail(s)))

\* One block of vec_dot_f32: (sum of qs[j] * x[j] over the 32 lanes) * d;
\* whole-valued x keeps the lane sum exact.
BlockDotF32(block, xs) ==
    DyMul(SumDy([j \in 1..BLOCK_ELEMS |-> MulI8(block.qs[j], xs[j])]),
          F16ToF32(block.d))

\* QuantBufQ8_0::vec_dot_f32(offset, x): the row of blocks
\* [offset / 32 .. (offset + x.len()) / 32), asserted to hold x.len()
\* elements, dotted with x block by block.
QuantBufQ8_0_vec_dot_f32(q, offset, x) ==
    LET bs == QuantBufQ8_0_blocks(q)
        lo == offset \div 32
        hi == (offset + Len(x)) \div 32
    IN  IF bs.status = "panic" \/ hi > Len(bs.blocks)
        THEN [status |-> "panic", val |-> NaN]
        ELSE IF (hi - lo) * 32 # Len(x) THEN [status |-> "panic", val |-> NaN]
        ELSE [status |-> "ok",
              val |-> SumDy([i \in 1..(hi - lo) |->
                         BlockDotF32(bs.blocks[lo + i],
                                     SubSeq(x, (i - 1) * 32 + 1, i * 32))])]

----------------------------------------------------------------------------
(* SpecBuf: a destination and a source buffer are built, one operation of *)
(* the union is applied to them, and both are dropped.                    *)

\* Dtypes of the gguf enumeration beyond the six the union knows.
OtherTypes == {"Q5_0"}
TargetTypes == GGMLType \cup OtherTypes

\* F32 contents: whole numbers of both signs.
F32Vals(n, seed) == [i \in 1..n |-> Dy(((i * (seed + 3)) % 7) - 2, 0)]

\* Sources: F32 slices of whole chunks, borrowed or owned, and views of
\* every quantized variant over loader bytes (whole blocks, or with a
\* stray tail where construction lets it through).
SrcInputs ==
    { BorrowedF32(F32Vals(BLOCK_ELEMS * n, 1)) : n \in 1..MaxBlocks }
    \cup { OwnedF32(F32Vals(BLOCK_ELEMS * n, 2)) : n \in 1..MaxBlocks }
    \cup ({ from_raw_bytes(RawBytes(BlockBytes(typ) * n + t, 1), typ, 0, "read").buf :
              typ \in Variants \ {"F32"}, n \in 1..MaxBlocks, t \in 0..MaxTail }
          \ {NoBuf})

DstLens == (1..MaxDst) \cup {BLOCK_ELEMS + 1}

\* Destinations: owned F32 buffers, a borrowed F32 slice, a quantized view.
DstInputs ==
    { OwnedF32(F32Vals(n, 0)) : n \in DstLens }
    \cup { BorrowedF32(F32Vals(MaxDst, 0)) }
    \cup { from_raw_bytes(RawBytes(BlockQ8_0_size, 1), "Q8_0", 0, "read").buf }

LoadBufs ==
    /\ bf = NoBufOp
    /\ \E d \in DstInputs, sb \in SrcInputs :
          bf' = [NoBufOp EXCEPT !.op = "load", !.dst = d, !.dst0 = d, !.src = sb]
    /\ UNCHANGED <<a, res, it, tw, tx, tout, bm, qz, mq, rp, par>>

\* The buffers are built and no operation has been applied yet.
BufReady == bf.op = "load"

BufDequantize ==
    /\ BufReady
    /\ \E target \in TargetTypes :
          LET r == dequantize(bf.src, target)
          IN  bf' = [bf EXCEPT !.op = "dequantize", !.status = r.status, !.arg = target,
                               !.out = r.buf, !.dst0 = bf.dst]
    /\ UNCHANGED <<a, res, it, tw, tx, tout, bm, qz, mq, rp, par>>

BufQuantize ==
    /\ BufReady
    /\ \E target \in TargetTypes :
          LET r == quantize(bf.src, target)
          IN  bf' = [bf EXCEPT !.op = "quantize", !.status = r.status, !.arg = target,
                               !.out = r.buf, !.dst0 = bf.dst]
    /\ UNCHANGED <<a, res, it, tw, tx, tout, bm, qz, mq, rp, par>>

BufCopyFrom ==
    /\ BufReady
    /\ \E offset \in CopyOffsets, n \in CopyLens :
          LET r == copy_from(bf.dst, bf.src, offset, n)
          IN  bf' = [bf EXCEPT !.op = "copy_from", !.status = r.status, !.off = offset,
                               !.n = n, !.dst = r.buf, !.dst0 = bf.dst]
    /\ UNCHANGED <<a, res, it, tw, tx, tout, bm, qz, mq, rp, par>>

\* The x operands of vec_dot_f32: one chunk, and one chunk and an element.
DotLens == {BLOCK_ELEMS, BLOCK_ELEMS + 1}

BufVecDotF32 ==
    /\ BufReady
    /\ bf.src.variant = "Q8_0"
    /\ \E offset \in CopyOffsets, n \in DotLens :
          LET r == QuantBufQ8_0_vec_dot_f32(bf.src, offset, F32Vals(n, 2))
          IN  bf' = [bf EXCEPT !.op = "vec_dot_f32", !.status = r.status,
                               !.off = offset, !.n = n, !.val = <<r.val>>]
    /\ UNCHANGED <<a, res, it, tw, tx, tout, bm, qz, mq, rp, par>>

BufBlocksRange ==
    /\ BufReady
    /\ bf.src.variant = "Q8_0"
    /\ \E start \in CopyOffsets, end \in CopyOffsets :
          LET r == QuantBufQ8_0_blocks_range(bf.src, start, end)
          IN  bf' = [bf EXCEPT !.op = "blocks_range", !.status = r.status,
                               !.off = start, !.n = end, !.val = r.blocks]
    /\ UNCHANGED <<a, res, it, tw, tx, tout, bm, qz, mq, rp, par>>

DropBufs ==
    /\ bf.op \notin {"none", "load"}
    /\ bf' = NoBufOp
    /\ UNCHANGED <<a, res, it, tw, tx, tout, bm, qz, mq, rp, par>>

\* C11: dequantize(target) returns an error value for every target outside
\* {F32, F16}, whatever the source; and whenever it returns Ok(buf) for a
\* target in {F32, F16}, buf is owned, buf.dtype() = target and buf.len()
\* equals the source's len().
C11_Dequantize ==
    bf.op = "dequantize" =>
        /\ bf.arg \notin {"F32", "F16"} => bf.status = "err"
        /\ (bf.arg \in {"F32", "F16"} /\ bf.status = "ok") =>
               (is_owned(bf.out) /\ dtype(bf.out) = bf.arg /\ len(bf.out) = len(bf.src))

\* The part of C11 the code keeps: the error for other targets, and an
\* owned F32 buffer of the source's length on every Ok.
C11_DequantizeF32 ==
    bf.op = "dequantize" =>
        /\ bf.arg \notin {"F32", "F16"} => bf.status = "err"
        /\ bf.status = "ok" =>
               (is_owned(bf.out) /\ dtype(bf.out) = "F32" /\ len(bf.out) = len(bf.src))

\* C12: on an F32 buffer whose length is a multiple of 32, quantize(target)
\* returns Ok with a buffer of dtype() = target for each of the six known
\* dtypes and an error value for every other target.  (The source is a
\* shared borrow: no operation of the call can write it.)
C12_Quantize ==
    (bf.op = "quantize" /\ bf.src.variant = "F32" /\ len(bf.src) % BLOCK_ELEMS = 0) =>
        /\ bf.arg \in GGMLType => (bf.status = "ok" /\ dtype(bf.out) = bf.arg)
        /\ bf.arg \notin GGMLType => bf.status = "err"

\* The part of C12 the code keeps: Ok with the target's dtype for F32 and
\* the four block formats, Err for every other target, F16 among them.
C12_QuantizeFive ==
    (bf.op = "quantize" /\ bf.src.variant = "F32" /\ len(bf.src) % BLOCK_ELEMS = 0) =>
        /\ bf.arg \in Variants => (bf.status = "ok" /\ dtype(bf.out) = bf.arg)
        /\ bf.arg \notin Variants => bf.status = "err"

\* Element i (0-based) of a buffer as an f32: the stored value, or the
\* decoded element of its block.
ElemAt(b, i) ==
    IF b.variant = "F32" THEN b.f32[i + 1]
    ELSE IF b.variant = "Q8_0"
    THEN LET blk == BlockQ8_0_from_bytes(
                        SubSeq(b.raw, (i \div BLOCK_ELEMS) * BlockQ8_0_size + 1,
                               ((i \div BLOCK_ELEMS) + 1) * BlockQ8_0_size)).blocks[1]
         IN  MulI8(blk.qs[(i % BLOCK_ELEMS) + 1], F16ToF32(blk.d))
    ELSE QuantBuf_dequantize_at(b.variant, b.raw, (i \div BLOCK_ELEMS) + 1, i % BLOCK_ELEMS)

\* The calls C13 speaks of: an owned F32 destination, a source of any
\* variant, the offset block-aligned for a quantized source, the range
\* inside the source and no longer than the destination.
CopyValid ==
    /\ bf.op = "copy_from"
    /\ is_owned(bf.dst0)
    /\ bf.src.variant \in Variants
    /\ bf.src.variant # "F32" => bf.off % BLOCK_ELEMS = 0
    /\ bf.off + bf.n <= len(bf.src)
    /\ bf.n <= len(bf.dst0)

CopyPost ==
    /\ bf.status = "ok"
    /\ len(bf.dst) = len(bf.dst0)
    /\ \A i \in 0..(len(bf.dst0) - 1) :
          bf.dst.f32[i + 1] = IF i < bf.n THEN ElemAt(bf.src, bf.off + i)
                              ELSE bf.dst0.f32[i + 1]

\* C13: for an owned F32 destination and a source of any dtype, with the
\* offset block-aligned for a quantized source, offset + len <= src.len()
\* and len <= dst.len(): copy_from returns Ok, sets dst[i] to the value of
\* src[offset + i] for i < len, and leaves the rest of dst and its length
\* unchanged.
C13_CopyFrom == CopyValid => CopyPost

\* The part of C13 the code keeps: F32 sources, and Q8_0 sources over
\* whole blocks.
C13_CopyFromF32OrQ8 ==
    (CopyValid /\ (bf.src.variant = "F32"
                   \/ (bf.src.variant = "Q8_0" /\ Len(bf.src.raw) % BlockQ8_0_size = 0)))
        => CopyPost

NextBuf ==
    \/ LoadBufs \/ BufDequantize \/ BufQuantize \/ BufCopyFrom
    \/ BufVecDotF32 \/ BufBlocksRange \/ DropBufs

SpecBuf == Init /\ [][NextBuf]_vars

----------------------------------------------------------------------------
(* SpecOwn: a buffer is built and up to MaxOps operations are applied to   *)
(* it one after another; a fatal termination ends the sequence.            *)

\* self.as_f32_mut()[i] = v
as_f32_mut(b, i, v) ==
    IF ~(b.variant = "F32" /\ b.owned) THEN [status |-> "panic", buf |-> b]
    ELSE IF i >= Len(b.f32) THEN [status |-> "panic", buf |-> b]
    ELSE [status |-> "ok", buf |-> [b EXCEPT !.f32[i + 1] = v]]

\* self.iter_f32_mut().for_each(|x| *x = v)
iter_f32_mut(b, v) ==
    IF ~(b.variant = "F32" /\ b.owned) THEN [status |-> "panic", buf |-> b]
    ELSE [status |-> "ok", buf |-> [b EXCEPT !.f32 = [i \in 1..Len(b.f32) |-> v]]]

\* An f32 kept as a dyadic number, in fixed point to the nearest 1/FxOne
\* (magnitudes under 2^20).
DyToFx(x) ==
    IF x.e >= -10 THEN x.m * Pow2(10 + x.e)
    ELSE IF -10 - x.e > 29 THEN 0
    ELSE (2 * x.m + Pow2(-10 - x.e)) \div (2 * Pow2(-10 - x.e))

\* exp_f32_cached(x, exp_cache): the cached exponential, to the nearest
\* 1/FxOne.  The table holds the values of exp under the 16-bit pattern
\* of the argument; the elements of the model's buffers are small whole
\* numbers, which 16 bits hold exactly.
exp_f32_cached(x) == ExpFx(x)

\* The closure of silu_inplace on one element: *n /= 1.0 + exp(-n).
\* NaN stays NaN; +inf is divided by 1.0 + 0.0 and stays +inf; -inf is
\* divided by +inf, which is NaN; a zero keeps its sign.  From 2^20 on
\* the exponential is 0.0 and n is kept, to -2^20 it is +inf and the
\* quotient -0.0.
SiluElem(n) ==
    IF n.k = "nan" THEN NaN
    ELSE IF n.k = "inf" THEN (IF n.m > 0 THEN n ELSE NaN)
    ELSE IF n.m = 0 THEN n
    ELSE IF BitLen(Abs(n.m)) + n.e > 20 THEN (IF n.m > 0 THEN n ELSE NegZero)
    ELSE LET v == DyToFx(n)
             e == exp_f32_cached(-v)
         IN  IF e >= FxInf THEN Dy(0, 0) ELSE Dy(DivFx(v, FxOne + e), -10)

\* unary_inplace(buf, f) of primitives/scalar.rs: f is applied to every
\* element through the buffer's mutable f32 access, which is fatal on a
\* buffer that is not an owned F32.  fs[i] is f of element i.
unary_inplace(b, fs) ==
    IF ~(b.variant = "F32" /\ b.owned) THEN [status |-> "panic", buf |-> b]
    ELSE [status |-> "ok", buf |-> [b EXCEPT !.f32 = [i \in 1..Len(b.f32) |-> fs[i]]]]

\* silu_inplace: unary_inplace with the closure over the device's exp
\* cache.
silu_inplace(b) == unary_inplace(b, [i \in 1..Len(b.f32) |-> SiluElem(b.f32[i])])

extend_any_f32(b, vals) ==
    IF b.variant = "F32"
    THEN [status |-> "ok", buf |-> [b EXCEPT !.f32 = b.f32 \o vals]]
    ELSE [status |-> "panic", buf |-> b]

\* CpuTensorBuf::extend
extend(b, vals) ==
    IF b.variant = "F32" /\ b.owned
    THEN [status |-> "ok", buf |-> [b EXCEPT !.f32 = b.f32 \o vals]]
    ELSE [status |-> "panic", buf |-> b]

\* Clone for CpuTensorBuf: a Cow clone keeps borrowed data borrowed and
\* copies owned data; a view is copied as a view.
clone(b) ==
    [variant |-> b.variant, owned |-> b.owned, f32 |-> b.f32,
     raw |-> b.raw, num_blocks |-> b.num_blocks]

\* The buffers operated on: F32 buffers, owned and borrowed, of a few
\* elements and of one chunk, and one-block views of every block format.
OwnInputs ==
    { OwnedF32(F32Vals(n, 0)) : n \in (1..MaxDst) \cup {BLOCK_ELEMS} }
    \cup { BorrowedF32(F32Vals(n, 0)) : n \in (1..MaxDst) \cup {BLOCK_ELEMS} }
    \cup { from_raw_bytes(RawBytes(BlockBytes(typ), 1), typ, 0, "read").buf : typ \in Variants \ {"F32"} }

\* Sources of copy_from: an F32 slice and a Q8_0 view.
OwnSources ==
    { BorrowedF32(F32Vals(MaxDst, 1)),
      from_raw_bytes(RawBytes(BlockQ8_0_size, 1), "Q8_0", 0, "read").buf }

OwnLoad ==
    /\ a = NoBuf
    /\ res = NoRes
    /\ \E b \in OwnInputs :
          /\ a' = b
          /\ res' = [op |-> "load", status |-> "ok", arg |-> "", n |-> 0, val |-> b]
    /\ UNCHANGED <<it, tw, tx, tout, bm, bf, qz, mq, rp, par>>

\* A further operation is possible: the buffer exists, the program has not
\* terminated, the budget is not spent.
OwnReady == a # NoBuf /\ res.status # "panic" /\ res.n < MaxOps

\* The outcome r of operation op on the buffer.
OwnStep(op, arg, r) ==
    /\ a' = r.buf
    /\ res' = [op |-> op, status |-> r.status, arg |-> arg, n |-> res.n + 1, val |-> a]

OwnAsF32Mut ==
    /\ OwnReady
    /\ OwnStep("as_f32_mut", "", as_f32_mut(a, 0, Dy(9, 0)))
    /\ UNCHANGED <<it, tw, tx, tout, bm, bf, qz, mq, rp, par>>

OwnIterF32Mut ==
    /\ OwnReady
    /\ OwnStep("iter_f32_mut", "", iter_f32_mut(a, Dy(-9, 0)))
    /\ UNCHANGED <<it, tw, tx, tout, bm, bf, qz, mq, rp, par>>

OwnExtend ==
    /\ OwnReady
    /\ \E vals \in {<<>>, <<Dy(5, 0)>>} :
          OwnStep("extend", "", extend(a, vals))
    /\ UNCHANGED <<it, tw, tx, tout, bm, bf, qz, mq, rp, par>>

OwnCopyFrom ==
    /\ OwnReady
    /\ \E srcb \in OwnSources, offset \in {0, 1} :
          OwnStep("copy_from", srcb.variant, copy_from(a, srcb, offset, 1))
    /\ UNCHANGED <<it, tw, tx, tout, bm, bf, qz, mq, rp, par>>

OwnVecDot ==
    /\ OwnReady
    /\ \E typ \in Variants :
          OwnStep("vec_dot", typ, [status |-> vec_dot(a, RhsBuf(typ)).status, buf |-> a])
    /\ UNCHANGED <<it, tw, tx, tout, bm, bf, qz, mq, rp, par>>

OwnQuantize ==
    /\ OwnReady
    /\ \E target \in TargetTypes :
          OwnStep("quantize", target, [status |-> quantize(a, target).status, buf |-> a])
    /\ UNCHANGED <<it, tw, tx, tout, bm, bf, qz, mq, rp, par>>

OwnClone ==
    /\ OwnReady
    /\ OwnStep("clone", dtype(clone(a)), [status |-> "ok", buf |-> a])
    /\ UNCHANGED <<it, tw, tx, tout, bm, bf, qz, mq, rp, par>>

OwnSilu ==
    /\ OwnReady
    /\ OwnStep("silu_inplace", "", silu_inplace(a))
    /\ UNCHANGED <<it, tw, tx, tout, bm, bf, qz, mq, rp, par>>

OwnDrop ==
    /\ res.op \notin {"none", "load"}
    /\ a' = NoBuf
    /\ res' = NoRes
    /\ UNCHANGED <<it, tw, tx, tout, bm, bf, qz, mq, rp, par>>

NextOwn ==
    \/ OwnLoad \/ OwnAsF32Mut \/ OwnIterF32Mut \/ OwnExtend \/ OwnCopyFrom
    \/ OwnVecDot \/ OwnQuantize \/ OwnClone \/ OwnSilu \/ OwnDrop

SpecOwn == Init /\ [][NextOwn]_vars

MutOps == {"as_f32_mut", "iter_f32_mut", "extend", "copy_from"}
OwnOps == MutOps \cup {"vec_dot", "quantize", "clone"}

\* C14: over any sequence of buffer operations, a buffer that is not owned
\* (borrowed F32 or any quantized view) keeps its contents and length, every
\* mutating operation on it terminating fatally; and mutable access
\* (as_f32_mut, iter_f32_mut, extend) succeeds exactly when is_owned().
C14_OwnedOnly ==
    res.op \in OwnOps =>
        /\ ~is_owned(res.val) => (a = res.val /\ (res.op \in MutOps => res.status = "panic"))
        /\ (res.op \in {"as_f32_mut", "iter_f32_mut", "extend"}) =>
              (res.status = "ok" <=> is_owned(res.val))
        /\ is_owned(a) <=> is_owned(res.val)

C14_Witness ==
    /\ res.op = "extend" /\ res.n = MaxOps
    /\ res.val.variant = "F32" /\ ~is_owned(res.val)
    /\ res.status = "panic" /\ a = res.val

----------------------------------------------------------------------------
(* Multi-query attention (tensor/arithmetic.rs).  q, k_cache and v_cache   *)
(* hold whole numbers; scores, the attn scratch and the output are in      *)
(* fixed point (1/FxOne), as the softmax takes them.                       *)

\* score / (head_size as f32).sqrt() for a whole score under 2^30: the root
\* rounded to an f32, the quotient by it rounded to an f32, and that value
\* to the nearest 1/FxOne.  A zero head_size divides by 0.0.
ScoreFx(score, head_size) ==
    IF head_size = 0
    THEN (IF score > 0 THEN FxInf ELSE IF score < 0 THEN -FxInf ELSE FxNaN)
    ELSE IF score = 0 THEN 0
    ELSE LET quot(r)  == DivF32(Abs(score), r.m, -r.e)
             units(d) == ToUnits(d.m, d.e + 10, FxInf)
         IN  (IF score < 0 THEN -1 ELSE 1) * units(quot(SqrtF32(head_size)))

AttnTokens_all(pos, n_seq) == n_seq

\* .take(pos + 1) over an axis of n_seq elements
AttnTokens(pos, n_seq) == Min(pos + 1, n_seq)

\* One pass of the loop over heads: the scores of head h overwrite the
\* head of the shared attn scratch, are normalised, and weigh the value
\* rows added into out[h, :].
AttnHead(q, k_cache, v_cache, pos, h, st) ==
    LET n_heads    == q.shape[1]
        n_kv_heads == k_cache.shape[2]
        head_size  == q.shape[2]
        n_seq      == k_cache.shape[1]
        nt         == AttnTokens(pos, n_seq)
        kvh        == h \div (n_heads \div n_kv_heads)
        q_head     == iter_axis(q, <<h, 0>>, 1)
        k_head(tok) == iter_axis(k_cache, <<tok, kvh, 0>>, 2)
        v_head(tok) == iter_axis(v_cache, <<tok, kvh, 0>>, 2)
        scored     == [st.attn EXCEPT !.buf = [t \in 1..Len(st.attn.buf) |->
                          IF t <= nt
                          THEN ScoreFx(ZipDot(q_head.vals, k_head(t - 1).vals), head_size)
                          ELSE st.attn.buf[t]]]
        width      == Min(head_size, IF nt = 0 THEN 0 ELSE Len(v_head(0).vals))
        weigh(sm)  ==
            IF sm.status # "ok" \/ \E tok \in 0..(nt - 1) : v_head(tok).status # "ok"
            THEN [st EXCEPT !.status = "err"]
            ELSE [status |-> "ok",
                  attn |-> sm.t,
                  out |-> [st.out EXCEPT !.buf = [j \in 1..Len(st.out.buf) |->
                      IF j > h * head_size /\ j <= h * head_size + width
                      THEN st.out.buf[j]
                           + SumSeq([t \in 1..nt |->
                                 v_head(t - 1).vals[j - h * head_size] * sm.t.buf[t]])
                      ELSE st.out.buf[j]]]]
    IN  IF n_heads \div n_kv_heads = 0 THEN [st EXCEPT !.status = "panic"]
        ELSE IF q_head.status # "ok" \/ \E tok \in 0..(nt - 1) : k_head(tok).status # "ok"
        THEN [st EXCEPT !.status = "panic"]
        ELSE weigh(tensor_softmax_inplace(scored, pos + 1))

\* The state after the first h passes of the loop, from zeroed out and attn.
RECURSIVE AttnHeads(_, _, _, _, _)
AttnHeads(q, k_cache, v_cache, pos, h) ==
    IF h = 0
    THEN [status |-> "ok",
          out |-> Zeros(<<q.shape[1], q.shape[2]>>),
          attn |-> Zeros(<<k_cache.shape[1]>>)]
    ELSE LET st == AttnHeads(q, k_cache, v_cache, pos, h - 1)
         IN  IF st.status # "ok" THEN st
             ELSE AttnHead(q, k_cache, v_cache, pos, h - 1, st)

\* tensor_multi_query_attention
tensor_multi_query_attention(q, k_cache, v_cache, pos) ==
    IF ~require_tensor_contiguous(q) THEN Err
    ELSE IF ~require_tensor_contiguous(k_cache) THEN Err
    ELSE IF ~require_tensor_dims(k_cache, {3}) THEN Err
    ELSE IF Rank(q) < 2 THEN Fatal
    ELSE LET result(st) == IF st.status = "ok" THEN [status |-> "ok", t |-> st.out]
                            ELSE IF st.status = "err" THEN Err
                            ELSE Fatal
         IN  result(AttnHeads(q, k_cache, v_cache, pos, q.shape[1]))

----------------------------------------------------------------------------
(* SpecAttn: the attention is run on a query and caches, and run again on  *)
(* inputs that differ from them in one row of q, k_cache or v_cache.       *)

\* The tensor with 1 added to every element of the row (along the last
\* axis) that starts at `origin`.
BumpRow(t, origin) ==
    LET offs == iter_axis_offsets(t, origin, Rank(t) - 1).offs
    IN  [t EXCEPT !.buf = [j \in 1..Len(t.buf) |->
            IF \E i \in 1..Len(offs) : offs[i] + 1 = j THEN t.buf[j] + 1 ELSE t.buf[j]]]

LoadAttn ==
    /\ mq = NoAttn
    /\ \E n_heads \in 1..MaxDim, n_kv_heads \in 1..MaxDim, head_size \in 1..MaxDim,
          n_seq \in 1..MaxDim, pos \in 0..MaxDim, seed \in 0..MaxFill,
          kind \in {"q", "k", "v"}, r0 \in 0..(MaxDim - 1), r1 \in 0..(MaxDim - 1) :
          LET q == NewTensor([i \in 1..(n_heads * head_size) |-> FillX(seed, i - 1)],
                             <<n_heads, head_size>>)
              k == NewTensor([i \in 1..(n_seq * n_kv_heads * head_size) |-> ((2 * i) % 3) - 1],
                             <<n_seq, n_kv_heads, head_size>>)
              v == NewTensor([i \in 1..(n_seq * n_kv_heads * head_size) |-> FillW(i - 1)],
                             <<n_seq, n_kv_heads, head_size>>)
              row == IF kind = "q" THEN <<r0, 0>> ELSE <<r0, r1, 0>>
          IN  /\ kind = "q" => (r0 < n_heads /\ r1 = 0)
              /\ kind # "q" => (r0 < n_seq /\ r1 < n_kv_heads)
              /\ mq' = [NoAttn EXCEPT !.op = "load", !.pos = pos, !.kind = kind, !.row = row,
                           !.q = q, !.k = k, !.v = v,
                           !.q2 = IF kind = "q" THEN BumpRow(q, row) ELSE q,
                           !.k2 = IF kind = "k" THEN BumpRow(k, row) ELSE k,
                           !.v2 = IF kind = "v" THEN BumpRow(v, row) ELSE v]
    /\ UNCHANGED <<a, res, it, tw, tx, tout, bm, bf, qz, rp, par>>

AttnRun ==
    /\ mq.op = "load"
    /\ LET ran(r) == [mq EXCEPT !.op = "run", !.status = r.status, !.out = r.t]
       IN  mq' = ran(tensor_multi_query_attention(mq.q, mq.k, mq.v, mq.pos))
    /\ UNCHANGED <<a, res, it, tw, tx, tout, bm, bf, qz, rp, par>>

AttnRerun ==
    /\ mq.op = "run"
    /\ LET reran(r) == [mq EXCEPT !.op = "rerun", !.status2 = r.status, !.out2 = r.t]
       IN  mq' = reran(tensor_multi_query_attention(mq.q2, mq.k2, mq.v2, mq.pos))
    /\ UNCHANGED <<a, res, it, tw, tx, tout, bm, bf, qz, rp, par>>

DropAttn ==
    /\ mq.op = "rerun"
    /\ mq' = NoAttn
    /\ UNCHANGED <<a, res, it, tw, tx, tout, bm, bf, qz, rp, par>>

NextAttn == LoadAttn \/ AttnRun \/ AttnRerun \/ DropAttn

SpecAttn == Init /\ [][NextAttn]_vars

\* The KV head serving query head h.
KvHeadOf(h) == h \div (mq.q.shape[1] \div mq.k.shape[2])

\* The two runs agree on everything Out[h, :] may depend on: Q[h, :] and the
\* rows of K_cache and V_cache of h's KV head at t <= pos.
AttnAgree(h) ==
    /\ iter_axis(mq.q, <<h, 0>>, 1) = iter_axis(mq.q2, <<h, 0>>, 1)
    /\ \A t \in 0..mq.pos :
          /\ iter_axis(mq.k, <<t, KvHeadOf(h), 0>>, 2) = iter_axis(mq.k2, <<t, KvHeadOf(h), 0>>, 2)
          /\ iter_axis(mq.v, <<t, KvHeadOf(h), 0>>, 2) = iter_axis(mq.v2, <<t, KvHeadOf(h), 0>>, 2)

AttnValid ==
    /\ mq.op = "rerun"
    /\ mq.q.shape[1] % mq.k.shape[2] = 0
    /\ mq.pos < mq.k.shape[1]

\* C15: with n_kv_heads dividing n_heads and pos < n_seq, Out[h, :] is
\* determined by Q[h, :] and the rows K_cache[t, kvh, :], V_cache[t, kvh, :]
\* for t <= pos, kvh = h div (n_heads div n_kv_heads): two runs that differ
\* only in cache rows at t > pos, in other KV heads' rows, or in what an
\* earlier head left in the attn scratch give the same Out[h, :].
C15_AttnDependsOnOwnRows ==
    AttnValid =>
        /\ mq.status = "ok" /\ mq.status2 = "ok"
        /\ \A h \in 0..(mq.q.shape[1] - 1) :
              /\ KvHeadOf(h) < mq.k.shape[2]
              /\ AttnAgree(h) => iter_axis(mq.out, <<h, 0>>, 1) = iter_axis(mq.out2, <<h, 0>>, 1)

\* Runs whose outputs differ, for one head through a changed row of an
\* earlier head's query (and so a changed scratch), while a later head's
\* output is the same.
C15_Witness ==
    /\ AttnValid /\ mq.status = "ok" /\ mq.status2 = "ok"
    /\ mq.kind = "q" /\ mq.row = <<0, 0>> /\ mq.pos >= 1
    /\ mq.q.shape[1] >= 2
    /\ iter_axis(mq.out, <<0, 0>>, 1) # iter_axis(mq.out2, <<0, 0>>, 1)
    /\ AttnAgree(1)
    /\ iter_axis(mq.out, <<1, 0>>, 1) = iter_axis(mq.out2, <<1, 0>>, 1)

----------------------------------------------------------------------------
(* Rotary position embedding (tensor/arithmetic.rs).  An element is a term: *)
(* <<"elem", name, i>> for the value first stored at index i, and           *)
(* <<"rot0", v0, v1, angle>>, <<"rot1", v0, v1, angle>> for                 *)
(* v0*cos - v1*sin and v0*sin + v1*cos at the angle of                      *)
(* <<pos, head_dim, head_size>>, so a second rotation shows as a nested     *)
(* term.                                                                    *)

\* val = pos * freq_base / freq_scale.powf(head_dim / head_size)
RopeAngle(pos, head_dim, head_size) == <<pos, head_dim, head_size>>

\* vec[i] = v0 * fcr - v1 * fci; vec[i + 1] = v0 * fci + v1 * fcr
RopeRotate(vec, i, angle) ==
    [vec EXCEPT ![i + 1] = <<"rot0", vec[i + 1], vec[i + 2], angle>>,
                ![i + 2] = <<"rot1", vec[i + 1], vec[i + 2], angle>>]

\* The state after the first n rounds of the loop for i in
\* (0..kv_dim).step_by(2): each round rotates the pair at i of q, then of k
\* (rotn is 2 for every i below kv_dim); an index past a buffer is fatal.
RECURSIVE RopeRounds(_, _, _, _, _)
RopeRounds(q, k, pos, head_size, n) ==
    IF n = 0 THEN [status |-> "ok", q |-> q, k |-> k]
    ELSE LET st    == RopeRounds(q, k, pos, head_size, n - 1)
             i     == 2 * (n - 1)
             angle == RopeAngle(pos, i % head_size, head_size)
         IN  IF st.status # "ok" THEN st
             ELSE IF i + 1 >= Len(st.q.buf) THEN [st EXCEPT !.status = "panic"]
             ELSE IF i + 1 >= Len(st.k.buf)
             THEN [status |-> "panic", q |-> [st.q EXCEPT !.buf = RopeRotate(st.q.buf, i, angle)],
                   k |-> st.k]
             ELSE [status |-> "ok",
                   q |-> [st.q EXCEPT !.buf = RopeRotate(st.q.buf, i, angle)],
                   k |-> [st.k EXCEPT !.buf = RopeRotate(st.k.buf, i, angle)]]

\* q and k are taken by value and come back only in Ok((q, k)): after an
\* Err and after a panic the caller holds neither.
RopeDropped(status) == [status |-> status, q |-> NoTensor, k |-> NoTensor]

\* tensor_rope_inplace: the loop runs over i < kv_dim, the element count of k.
tensor_rope_inplace(q, k, pos) ==
    IF ~require_tensor_contiguous(q) \/ ~require_tensor_contiguous(k)
    THEN RopeDropped("err")
    ELSE IF ~require_tensor_dims(q, {2}) \/ ~require_tensor_dims(k, {2})
    THEN RopeDropped("err")
    ELSE LET kv_dim == Prod(k.shape)
             r      == RopeRounds(q, k, pos, q.shape[2], (kv_dim + 1) \div 2)
         IN  IF r.status = "ok" THEN r ELSE RopeDropped(r.status)

----------------------------------------------------------------------------
(* SpecRope: q and k are built, rotated in place, and dropped.             *)

RopeTensor(name, heads, head_size, layout) ==
    MkTensor(<<heads, head_size>>, layout,
             [i \in 1..(heads * head_size) |-> <<"elem", name, i - 1>>])

LoadRope ==
    /\ rp = NoRope
    /\ \E n_heads \in 1..MaxDim, n_kv_heads \in 1..MaxDim, head_size \in 1..(2 * MaxDim),
          pos \in 0..MaxDim, layout \in Layouts :
          LET q == RopeTensor("q", n_heads, head_size, layout)
              k == RopeTensor("k", n_kv_heads, head_size, "contiguous")
          IN  rp' = [op |-> "load", status |-> "ok", pos |-> pos,
                     q0 |-> q, k0 |-> k, q |-> q, k |-> k]
    /\ UNCHANGED <<a, res, it, tw, tx, tout, bm, bf, qz, mq, par>>

RopeInplace ==
    /\ rp.op = "load"
    /\ LET r == tensor_rope_inplace(rp.q, rp.k, rp.pos)
       IN  rp' = [rp EXCEPT !.op = "rope", !.status = r.status, !.q = r.q, !.k = r.k]
    /\ UNCHANGED <<a, res, it, tw, tx, tout, bm, bf, qz, mq, par>>

DropRope ==
    /\ rp.op = "rope"
    /\ rp' = NoRope
    /\ UNCHANGED <<a, res, it, tw, tx, tout, bm, bf, qz, mq, par>>

NextRope == LoadRope \/ RopeInplace \/ DropRope

SpecRope == Init /\ [][NextRope]_vars

\* Every (even, odd) pair of the flat buffer is the single rotation of the
\* pair first stored there, at the angle of head_dim = i mod head_size.
RotatedOnce(t, t0, pos, head_size) ==
    /\ Len(t.buf) = Len(t0.buf)
    /\ \A i \in 0..(Len(t0.buf) - 1) :
          i % 2 = 0 =>
             /\ i + 1 < Len(t0.buf)
             /\ t.buf[i + 1] = <<"rot0", t0.buf[i + 1], t0.buf[i + 2],
                                 RopeAngle(pos, i % head_size, head_size)>>
             /\ t.buf[i + 2] = <<"rot1", t0.buf[i + 1], t0.buf[i + 2],
                                 RopeAngle(pos, i % head_size, head_size)>>

\* Calls on contiguous rank-2 q and k of an even head size, q with at
\* least as many heads as k.
RopeValid ==
    /\ rp.op = "rope"
    /\ is_contiguous(rp.q0) /\ is_contiguous(rp.k0)
    /\ rp.q0.shape[2] % 2 = 0
    /\ rp.q0.shape[1] >= rp.k0.shape[1]

\* C16: tensor_rope_inplace rotates every (even, odd) pair of the flattened
\* q and every such pair of the flattened k exactly once, each with the
\* angle derived from head_dim = i mod head_size, also when q has more
\* elements than k (n_heads > n_kv_heads).
C16_RopeEveryPairOnce ==
    RopeValid =>
        /\ rp.status = "ok"
        /\ RotatedOnce(rp.q, rp.q0, rp.pos, rp.q0.shape[2])
        /\ RotatedOnce(rp.k, rp.k0, rp.pos, rp.q0.shape[2])

\* The part of C16 the code keeps: q and k of the same size are both
\* rotated once, and when q is the larger one k is.
C16_RopeWithinKvDim ==
    RopeValid =>
        /\ rp.status = "ok"
        /\ RotatedOnce(rp.k, rp.k0, rp.pos, rp.q0.shape[2])
        /\ rp.q0.shape[1] = rp.k0.shape[1] =>
              RotatedOnce(rp.q, rp.q0, rp.pos, rp.q0.shape[2])
        /\ \A j \in (Len(rp.k0.buf) + 1)..Len(rp.q0.buf) : rp.q.buf[j] = rp.q0.buf[j]

----------------------------------------------------------------------------
(* SpecPar: the parallel loops of the matmul kernels.  A loop starts with  *)
(* one pending task per element of the iterator; workers run pending tasks *)
(* in any order, one at a time each; the loop is joined when none is left. *)
(* Kinds: "2d_1d" tensor_matmul_specialized_2d_1d, "2d_2d" the rank-2 path *)
(* of tensor_matmul_2d (one parallel loop per output row), "simd_k" the    *)
(* K-contiguous path of batch_matmul_simd_f16, whose loop runs over the    *)
(* scratch tmpc of b_batch * m * n elements; the scratch is copied over    *)
(* the head of the output when the loop is joined.  dims is (rows, cols)   *)
(* for the dense kernels and (a_batch, m, k, n, b_batch) for "simd_k".     *)

FlatIndexCoords_rowmod(i, m, n) ==
    LET ni == i % n
        mi == ((i - ni) \div n) % n
        bi == (i - ni - mi * n) \div (m * n)
    IN  <<bi, mi, ni>>

\* batch_matmul_simd_f16: ni = i % n; mi = (i - ni) / n % m;
\* bi = (i - ni - mi * n) / (m * n)
FlatIndexCoords(i, m, n) ==
    LET ni == i % n
        mi == ((i - ni) \div n) % m
        bi == (i - ni - mi * n) \div (m * n)
    IN  <<bi, mi, ni>>

\* The descriptors of the "simd_k" operands: A contiguous (a_batch, m, k),
\* B of logical shape (b_batch, k, n) contiguous on K.
ParStriderA(dims) == StriderA("contiguous", dims[1], dims[2], dims[3])
ParStriderB(dims) == StriderB("k", dims[5], dims[3], dims[4])

\* The closure of task i: the element it computes from the shared inputs
\* and the flat index it writes, of the output or, for "simd_k", of tmpc.
ParTaskWrite(p, i) ==
    IF p.kind = "2d_1d"
    THEN LET x_dim == Prod(p.x.shape)
         IN  [at |-> i, coords |-> <<i>>,
              val |-> ZipDot(SubSeq(p.w.buf, i * x_dim + 1, (i + 1) * x_dim), p.x.buf)]
    ELSE IF p.kind = "2d_2d"
    THEN [at |-> p.row * p.x.shape[2] + i, coords |-> <<p.row, i>>,
          val |-> ZipDot(iter_axis(p.w, <<p.row, 0>>, 1).vals,
                         iter_axis(p.x, <<0, i>>, 0).vals)]
    ELSE LET m == p.dims[2]
             k == p.dims[3]
             n == p.dims[4]
             c == FlatIndexCoords(i, m, n)
             offset_a == c[1] * (m * k) + c[2] * k
             offset_b == (c[1] % p.dims[5]) * (k * n) + c[3] * k
         IN  [at |-> i, coords |-> c,
              val |-> F16Round(vec_dot_f16_f16(p.w.buf, offset_a,
                          SubSeq(p.x.buf, offset_b + 1, offset_b + k), 0, k))]

\* Operands: w of `rows` rows and x of one or `cols` columns for the dense
\* kernels; for "simd_k" A (a_batch, m, 2) and B (b_batch, 2, n) with
\* b_batch * m * n tasks, a_batch = b_batch or B broadcast over a larger
\* a_batch (the kernel asserts a_batch >= b_batch).
ParInputs ==
    { [NoPar EXCEPT !.kind = "2d_1d",
          !.w = NewTensor([i \in 1..(rows * 2) |-> FillW(i - 1)], <<rows, 2>>),
          !.x = NewTensor([i \in 1..2 |-> FillX(seed, i - 1)], <<2>>),
          !.dims = <<1, rows>>] : rows \in 1..MaxTasks, seed \in 0..MaxFill }
    \cup
    { [NoPar EXCEPT !.kind = "2d_2d",
          !.w = NewTensor([i \in 1..(rows * 2) |-> FillW(i - 1)], <<rows, 2>>),
          !.x = NewTensor([i \in 1..(2 * cols) |-> FillX(seed, i - 1)], <<2, cols>>),
          !.dims = <<rows, cols>>] : rows \in 1..2, cols \in 1..MaxTasks, seed \in 0..MaxFill }
    \cup
    { [NoPar EXCEPT !.kind = "simd_k",
          !.w = NewTensor([i \in 1..(d[1] * d[2] * 2) |-> FillW(i - 1)], <<d[1], d[2], 2>>),
          !.x = NewTensor([i \in 1..(d[4] * 2 * d[3]) |-> FillX(seed, i - 1)], <<d[4], d[3], 2>>),
          !.dims = <<d[1], d[2], 2, d[3], d[4]>>] :
          d \in { e \in [1..4 -> 1..MaxTasks] :
                     /\ e[4] <= e[1] /\ e[1] <= MaxBatch + 1
                     /\ e[4] * e[2] * e[3] <= MaxTasks },
          seed \in 0..MaxFill }

\* The tasks of one parallel loop and the size of the whole output.
ParTasks(p) ==
    IF p.kind = "2d_1d" THEN 0..(p.dims[2] - 1)
    ELSE IF p.kind = "2d_2d" THEN 0..(p.dims[2] - 1)
    ELSE 0..(p.dims[5] * p.dims[2] * p.dims[4] - 1)

ParOutLen(p) ==
    IF p.kind = "simd_k" THEN p.dims[1] * p.dims[2] * p.dims[4]
    ELSE p.dims[1] * p.dims[2]

\* The elements the parallel loops run over: tmpc for "simd_k", the output
\* for the dense kernels.
ParIterLen(p) ==
    IF p.kind = "simd_k" THEN p.dims[5] * p.dims[2] * p.dims[4]
    ELSE ParOutLen(p)

ParStart ==
    /\ par = NoPar
    /\ \E p \in ParInputs :
          par' = [p EXCEPT !.op = "running", !.row = 0, !.pending = ParTasks(p),
                           !.tmpc = IF p.kind = "simd_k"
                                    THEN [j \in 1..Cardinality(ParTasks(p)) |-> 0]
                                    ELSE <<>>,
                           !.out = [j \in 1..ParOutLen(p) |-> 0],
                           !.writes = [j \in 1..ParOutLen(p) |-> 0],
                           !.coords = [j \in 1..ParOutLen(p) |-> <<>>]]
    /\ UNCHANGED <<a, res, it, tw, tx, tout, bm, bf, qz, mq, rp>>

\* A worker runs one pending task to its end.  writes[j] counts the
\* tasks that wrote output element j, or the element of tmpc that is
\* copied to it.
ParTask ==
    /\ par.op = "running"
    /\ \E i \in par.pending :
          LET t == ParTaskWrite(par, i)
          IN  par' = [par EXCEPT !.pending = par.pending \ {i},
                                 !.tmpc = IF par.kind = "simd_k"
                                          THEN [par.tmpc EXCEPT ![t.at + 1] = t.val]
                                          ELSE par.tmpc,
                                 !.out = IF par.kind = "simd_k" THEN par.out
                                         ELSE [par.out EXCEPT ![t.at + 1] = t.val],
                                 !.writes[t.at + 1] = par.writes[t.at + 1] + 1,
                                 !.coords[t.at + 1] = t.coords]
    /\ UNCHANGED <<a, res, it, tw, tx, tout, bm, bf, qz, mq, rp>>

\* The loop over output rows of the rank-2 path: the next row's parallel
\* loop starts when the current one is joined.
ParNextRow ==
    /\ par.op = "running" /\ par.kind = "2d_2d"
    /\ par.pending = {}
    /\ par.row + 1 < par.dims[1]
    /\ par' = [par EXCEPT !.row = par.row + 1, !.pending = ParTasks(par)]
    /\ UNCHANGED <<a, res, it, tw, tx, tout, bm, bf, qz, mq, rp>>

\* The loop is joined; batch_matmul_simd_f16 then copies tmpc over the
\* output: bufc.iter_mut().zip(tmpc.iter()) ends with the shorter of them.
ParJoin ==
    /\ par.op = "running"
    /\ par.pending = {}
    /\ par.kind = "2d_2d" => par.row + 1 = par.dims[1]
    /\ par' = [par EXCEPT !.op = "done",
                          !.out = IF par.kind = "simd_k"
                                  THEN [j \in 1..Len(par.out) |->
                                           IF j <= Len(par.tmpc) THEN par.tmpc[j]
                                           ELSE par.out[j]]
                                  ELSE par.out]
    /\ UNCHANGED <<a, res, it, tw, tx, tout, bm, bf, qz, mq, rp>>

ParDrop ==
    /\ par.op = "done"
    /\ par' = NoPar
    /\ UNCHANGED <<a, res, it, tw, tx, tout, bm, bf, qz, mq, rp>>

NextPar == ParStart \/ ParTask \/ ParNextRow \/ ParJoin \/ ParDrop

SpecPar == Init /\ [][NextPar]_vars

\* The output of the same kernel computed by one sequential call.
ParSequential ==
    IF par.kind = "simd_k"
    THEN batch_matmul_simd_f16(par.w.buf, par.x.buf, [j \in 1..ParOutLen(par) |-> 0],
                               ParStriderA(par.dims), ParStriderB(par.dims)).c
    ELSE tensor_matmul_2d(par.w, par.x).t.buf

\* No element is written by two tasks, and the task of "simd_k" that
\* wrote flat index j - 1 handled the (bi, mi, ni) with
\* j - 1 = bi*m*n + mi*n + ni.
ParOneWriter ==
    par.op \in {"running", "done"} =>
        \A j \in 1..Len(par.writes) :
            /\ par.writes[j] <= 1
            /\ (par.writes[j] = 1 /\ par.kind = "simd_k") =>
                  /\ par.coords[j][1] < par.dims[1]
                  /\ par.coords[j][2] < par.dims[2]
                  /\ par.coords[j][3] < par.dims[4]
                  /\ j - 1 = par.coords[j][1] * par.dims[2] * par.dims[4]
                             + par.coords[j][2] * par.dims[4] + par.coords[j][3]

\* C17: in the parallel matmul paths every output element is written by
\* exactly one task, the task for flat index i handles the (bi, mi, ni)
\* with i = bi*m*n + mi*n + ni, and tasks read only the shared inputs; so
\* the joined output is the same under every interleaving and equals the
\* sequential result.
C17_ParallelDeterministic ==
    /\ ParOneWriter
    /\ par.op = "done" =>
          /\ \A j \in 1..Len(par.writes) : par.writes[j] = 1
          /\ par.out = ParSequential

\* The part of C17 the code keeps: no element has two writers, the flat
\* index is decomposed as stated, every element of the parallel iterator
\* is written by exactly one task, and the joined output is the same under
\* every interleaving and equals that of the sequential kernel.  With B
\* broadcast the iterator is shorter than the output, and the elements
\* past it are written by no task and stay as they were.
C17_ParallelOverIterator ==
    /\ ParOneWriter
    /\ par.op = "done" =>
          /\ \A j \in 1..Len(par.writes) :
                 par.writes[j] = (IF j <= ParIterLen(par) THEN 1 ELSE 0)
          /\ \A j \in (ParIterLen(par) + 1)..Len(par.out) : par.out[j] = 0
          /\ par.out = ParSequential

\* A joined broadcast loop: the head of the output is computed, the tail
\* has no writer.
C17_BroadcastDone ==
    /\ par.op = "done" /\ par.kind = "simd_k"
    /\ par.dims[1] = 2 /\ par.dims[5] = 1 /\ par.dims[2] = 2
    /\ par.out = ParSequential
    /\ par.out[1] # 0
    /\ par.writes[Len(par.writes)] = 0

----------------------------------------------------------------------------
(* SpecQuant: BlockQ8_0::quantize on one chunk of 32 whole-valued f32s,    *)
(* then BlockQ8_0::dequantize of the block it made.                        *)

\* Chunks: two free elements, the other thirty equal.
QuantChunks ==
    { [i \in 1..BLOCK_ELEMS |-> IF i = 1 THEN x1 ELSE IF i = 2 THEN x2 ELSE fill] :
          x1 \in (-MaxMag)..MaxMag, x2 \in (-MaxMag)..MaxMag, fill \in {-1, 0, 1} }

\* The f32 values of a chunk of whole numbers.
F32Chunk(xs) == [j \in 1..Len(xs) |-> Dy(xs[j], 0)]

LoadChunk ==
    /\ qz = NoQuant
    /\ \E chunk \in QuantChunks : qz' = [NoQuant EXCEPT !.op = "load", !.chunk = chunk]
    /\ UNCHANGED <<a, res, it, tw, tx, tout, bm, bf, mq, rp, par>>

QuantQuantize ==
    /\ qz.op = "load"
    /\ qz' = [qz EXCEPT !.op = "quantized",
                        !.block = BlockQ8_0_quantize(F32Chunk(qz.chunk))]
    /\ UNCHANGED <<a, res, it, tw, tx, tout, bm, bf, mq, rp, par>>

QuantDequantize ==
    /\ qz.op = "quantized"
    /\ qz' = [qz EXCEPT !.op = "dequantized", !.deq = BlockQ8_0_dequantize(qz.block)]
    /\ UNCHANGED <<a, res, it, tw, tx, tout, bm, bf, mq, rp, par>>

DropChunk ==
    /\ qz.op = "dequantized"
    /\ qz' = NoQuant
    /\ UNCHANGED <<a, res, it, tw, tx, tout, bm, bf, mq, rp, par>>

NextQuant == LoadChunk \/ QuantQuantize \/ QuantDequantize \/ DropChunk

SpecQuant == Init /\ [][NextQuant]_vars

RECURSIVE AbsMax(_)
AbsMax(chunk) ==
    IF chunk = <<>> THEN 0 ELSE Max(Abs(Head(chunk)), AbsMax(Tail(chunk)))

\* |y - x| <= bound / 127 for a finite dyadic y and whole x, bound.
WithinScale(y, x, bound) ==
    /\ y.k = "num"
    /\ IF y.e >= 0 THEN Abs(IntOf(y) - x) * 127 <= bound
       ELSE Abs(y.m - x * Pow2(-y.e)) * 127 <= bound * Pow2(-y.e)

\* round(x / d) lies in the i8 range, so `as i8` does not saturate.
Unsaturated(x, bits) ==
    LET d == F16ToF32(bits)
    IN  IF d.m = 0 THEN x = 0
        ELSE RoundHalfAway(x * Pow2(-d.e), d.m * Pow2(d.e)) \in -128..127

QuantRoundTrip ==
    \A i \in 1..BLOCK_ELEMS :
        /\ WithinScale(qz.deq[i], qz.chunk[i], AbsMax(qz.chunk))
        /\ Unsaturated(qz.chunk[i], qz.block.d)

\* C18: for a 32-element chunk of any sign, quantize then dequantize gives
\* every element back within absmax / 127, no quant saturating.
C18_RoundTrip ==
    qz.op = "dequantized" => QuantRoundTrip

\* C18 (part that holds): the bound and the absence of saturation when the
\* largest element is also the largest magnitude.
C18_RoundTripMaxIsAbsMax ==
    (qz.op = "dequantized" /\ ChunkMax(F32Chunk(qz.chunk)) = Dy(AbsMax(qz.chunk), 0))
        => QuantRoundTrip

----------------------------------------------------------------------------
\* The block-level operations of a Q8_0 source that take element offsets.
BlockLevelOp ==
    /\ bf.src.variant = "Q8_0"
    /\ bf.op \in {"vec_dot_f32", "blocks_range", "copy_from"}

Unaligned ==
    \/ bf.off % BLOCK_ELEMS # 0
    \/ bf.op = "blocks_range" /\ bf.n % BLOCK_ELEMS # 0

\* C19: vec_dot_f32, blocks_range and copy_from with a Q8_0 source end
\* fatally when the offset is not a multiple of 32; none proceeds on the
\* block found by rounding the offset down.
C19_UnalignedFatal ==
    (BlockLevelOp /\ Unaligned) => bf.status = "panic"

\* C19 (part that holds): copy_from with a Q8_0 source and an unaligned
\* offset is fatal and leaves the destination as it was.
C19_CopyFromUnalignedFatal ==
    (BlockLevelOp /\ bf.op = "copy_from" /\ Unaligned) =>
        (bf.status = "panic" /\ bf.dst = bf.dst0)

----------------------------------------------------------------------------
\* sum_c w[b, r, c] * x[b, c]
BatchRowDot(w, x, b, r) ==
    SumSeq([c \in 1..w.shape[3] |-> At(w, <<b, r, c - 1>>) * At(x, <<b, c - 1>>)])

\* C20: tensor_batch_matmul(w, x) with w of shape (batch, w_rows, w_cols)
\* and x of shape (batch, w_cols) returns, without a panic, a tensor of
\* shape (batch, w_rows) with out[b, r] = sum_c w[b, r, c] * x[b, c], for
\* every w_rows and w_cols.
C20_BatchMatmulRank2 ==
    (/\ tout.op = "batch_matmul"
     /\ Rank(tw) = 3 /\ Rank(tx) = 2
     /\ tw.shape[1] = tx.shape[1] /\ tw.shape[3] = tx.shape[2]) =>
        /\ tout.status = "ok"
        /\ tout.t.shape = <<tw.shape[1], tw.shape[2]>>
        /\ \A b \in 0..(tw.shape[1] - 1), r \in 0..(tw.shape[2] - 1) :
              At(tout.t, <<b, r>>) = BatchRowDot(tw, tx, b, r)

----------------------------------------------------------------------------
\* The descriptors the primitive is specified for, whatever C holds.
BatchDescriptorsValid ==
    /\ Len(bm.s1.shape) = 3
    /\ Len(bm.s2.shape) = 3
    /\ is_contiguous(bm.s1)
    /\ bm.s2.strides[2] = 1 \/ bm.s2.strides[3] = 1
    /\ bm.s1.shape[3] = bm.s2.shape[2]
    /\ bm.s1.shape[1] % bm.s2.shape[1] = 0
    /\ Len(bm.c) = bm.s1.shape[1] * bm.s1.shape[2] * bm.s2.shape[3]

\* c_after[bi, mi, ni] = c_before[bi, mi, ni] + times * (A @ B)[bi, mi, ni]
BatchAccumulated(c_after, c_before, times) ==
    /\ Len(c_after) = Len(c_before)
    /\ \A bi \in 0..(bm.s1.shape[1] - 1), mi \in 0..(bm.s1.shape[2] - 1),
          ni \in 0..(bm.s2.shape[3] - 1) :
          LET i == bi * bm.s1.shape[2] * bm.s2.shape[3] + mi * bm.s2.shape[3] + ni + 1
          IN  c_after[i] = c_before[i] + times * BatchProduct(bi, mi, ni)

\* C21: on the F32 path a call of batch_matmul adds the product to C:
\* C_after[bi, mi, ni] = C_before[bi, mi, ni] + sum over ki of
\* A[bi, mi, ki] * B[bi mod b_batch, ki, ni]; a second call on the same C
\* leaves twice the product in a C that started zeroed; A, B and the
\* descriptors are unchanged.
C21_F32Accumulates ==
    [][ (/\ bm'.calls = bm.calls + 1
         /\ bm.bdtype = "F32"
         /\ BatchDescriptorsValid) =>
            /\ bm'.status = "ok"
            /\ bm'.a = bm.a /\ bm'.b = bm.b
            /\ bm'.s1 = bm.s1 /\ bm'.s2 = bm.s2
            /\ BatchAccumulated(bm'.c, bm.c, 1)
            /\ bm'.calls = 2 =>
                  BatchAccumulated(bm'.c, [i \in 1..Len(bm.c) |-> 0], 2) ]_vars

C21_Witness ==
    /\ bm.op = "batch_matmul" /\ bm.status = "ok"
    /\ bm.bdtype = "F32"
    /\ bm.calls = 2
    /\ bm.s1.shape[1] > bm.s2.shape[1]
    /\ BatchDescriptorsValid
    /\ BatchAccumulated(bm.c, bm.c0, 1)
    /\ \E i \in 1..Len(bm.c) : bm.c0[i] # 0 /\ bm.c[i] = 2 * bm.c0[i]

====
